---------------------------- MODULE Spec2Model ----------------------------
(***************************************************************************)
(* Model of the natural-language task inference engine of the checklist    *)
(* app: src/src/services/nlp.ts (single-task parser) and                   *)
(* src/src/components/DailyPrompt.tsx (multi-task segmenter), and of the   *)
(* components that use it or keep the tasks: the task form, the useTasks   *)
(* hook, the daily tracker, the task item and the shopping list.           *)
(*                                                                         *)
(* Texts are TLA+ strings; a character is a string of length 1.  The       *)
(* JavaScript regular expressions of the source are kept as data (the      *)
(* regex syntax tree) and run by a backtracking matcher that finds the     *)
(* match the JavaScript engine finds.                                      *)
(***************************************************************************)
EXTENDS Integers, Sequences, FiniteSets, TLC

VARIABLES
    words,    \* the words the user typed or dictated, in order
    text,     \* the input string handed to the function: the words joined
    chrono,   \* what chrono.parse finds in the text (an optional value)
    pc,       \* "call" before the function under analysis ran, "done" after
    ret,      \* the value the function returned
    stored,   \* the RecurrencePattern of a task, handed to formatRecurrence (optional)
    due,      \* the due date handed to detectTimeframe: hours from now (optional)
    lastIndex, \* the lastIndex property of each RegExp object of recurrencePatterns
    log,      \* the calls made so far in a session, in order: [fn, text, result]
    taskForm,     \* the state of a mounted TaskForm and what it submitted
    useTasks,     \* the state of the useTasks hook, its pending calls and the store
    dailyTracker, \* the tasks handed to DailyTracker and the streak computation
    taskItem,     \* the state of a mounted TaskItem and its pending timers
    shoppingList  \* the state of a mounted ShoppingList and the local storage

vars == <<words, text, chrono, pc, ret, stored, due, lastIndex, log,
          taskForm, useTasks, dailyTracker, taskItem, shoppingList>>

\* the arguments of a call, and the state that outlives a call
args   == <<words, text, chrono, stored, due>>
shared == <<lastIndex, log, taskForm, useTasks, dailyTracker, taskItem, shoppingList>>

\* the variables of the calls of the parsing functions
calls == <<words, text, chrono, pc, ret, stored, due, lastIndex, log>>

\* An optional value (T | undefined) is a sequence of at most one element.
None == <<>>
Some(x) == <<x>>

-----------------------------------------------------------------------------
(* Characters and strings (ECMAScript String built-ins)                    *)

UpperChars == "ABCDEFGHIJKLMNOPQRSTUVWXYZ"
LowerChars == "abcdefghijklmnopqrstuvwxyz"
DigitChars == "0123456789"

At(s, i) == SubSeq(s, i, i)

CharsOf(s) == {At(s, i) : i \in 1..Len(s)}

Upper == CharsOf(UpperChars)
Lower == CharsOf(LowerChars)
Digit == CharsOf(DigitChars)
\* \w of a regular expression
WordChar == Upper \cup Lower \cup Digit \cup {"_"}
\* \s of a regular expression (the white space the inputs use)
Space == {" ", "\n", "\t"}

IndexIn(s, c) == CHOOSE i \in 1..Len(s) : At(s, i) = c

toLowerChar(c) == IF c \in Upper THEN At(LowerChars, IndexIn(UpperChars, c)) ELSE c
toUpperChar(c) == IF c \in Lower THEN At(UpperChars, IndexIn(LowerChars, c)) ELSE c

RECURSIVE toLowerCase(_)
toLowerCase(s) == IF s = "" THEN "" ELSE toLowerChar(Head(s)) \o toLowerCase(Tail(s))

RECURSIVE toUpperCase(_)
toUpperCase(s) == IF s = "" THEN "" ELSE toUpperChar(Head(s)) \o toUpperCase(Tail(s))

\* s.startsWith(k, i - 1), positions counted from 1
StartsAt(s, k, i) == i + Len(k) - 1 <= Len(s) /\ SubSeq(s, i, i + Len(k) - 1) = k

\* s.includes(k)
includes(s, k) == \E i \in 1..(Len(s) + 1) : StartsAt(s, k, i)

\* s.trim()
RECURSIVE trimStart(_)
trimStart(s) == IF s # "" /\ Head(s) \in Space THEN trimStart(Tail(s)) ELSE s

RECURSIVE trimEnd(_)
trimEnd(s) ==
    IF s # "" /\ At(s, Len(s)) \in Space THEN trimEnd(SubSeq(s, 1, Len(s) - 1)) ELSE s

trim(s) == trimEnd(trimStart(s))

\* parseInt of a string of decimal digits
RECURSIVE parseInt(_)
parseInt(d) ==
    IF d = "" THEN 0
    ELSE 10 * parseInt(SubSeq(d, 1, Len(d) - 1)) + (IndexIn(DigitChars, At(d, Len(d))) - 1)

-----------------------------------------------------------------------------
(* Regular expressions: syntax trees and the backtracking matcher          *)

Lit(k)       == [t |-> "lit", k |-> k]
Cls(S)       == [t |-> "cls", S |-> S]
Cat(rs)      == [t |-> "cat", rs |-> rs]
Alt(rs)      == [t |-> "alt", rs |-> rs]
Rep(r, lo, hi) == [t |-> "rep", r |-> r, lo |-> lo, hi |-> hi]
Grp(r)       == [t |-> "grp", r |-> r]
WordB        == [t |-> "wordb"]
Bol          == [t |-> "bol"]
Eol          == [t |-> "eol"]

\* hi < 0: no upper limit on the repetition
Star(r) == Rep(r, 0, -1)
Plus(r) == Rep(r, 1, -1)
Opt(r)  == Rep(r, 0, 1)

\* (a|b|c) over literal strings
Lits(ks) == Alt([i \in 1..Len(ks) |-> Lit(ks[i])])

S_ == Cls(Space)
D_ == Cls(Digit)
W_ == Cls(WordChar)

\* A matcher state: the position of the next character and the span of
\* capture group 1 (from, to), <<0, 0>> while the group has not taken part.
MState(p) == [p |-> p, g |-> <<0, 0>>]

IsWordAt(s, i) == i >= 1 /\ i <= Len(s) /\ At(s, i) \in WordChar

RECURSIVE Match(_, _, _), MatchCat(_, _, _, _), MatchAlt(_, _, _, _), MatchRep(_, _, _, _, _),
          MatchEach(_, _, _, _), RepEach(_, _, _, _, _, _), GrpEach(_, _, _)

\* The matcher states after matching r against s from state m, in the order
\* in which a backtracking engine tries them (the first is the match found).
Match(r, s, m) ==
    CASE r.t = "lit"   -> IF StartsAt(s, r.k, m.p) THEN <<[m EXCEPT !.p = m.p + Len(r.k)]>> ELSE <<>>
      [] r.t = "cls"   -> IF m.p <= Len(s) /\ At(s, m.p) \in r.S
                          THEN <<[m EXCEPT !.p = m.p + 1]>> ELSE <<>>
      [] r.t = "cat"   -> MatchCat(r.rs, 1, s, <<m>>)
      [] r.t = "alt"   -> MatchAlt(r.rs, 1, s, m)
      [] r.t = "rep"   -> MatchRep(r.r, r.lo, r.hi, s, m)
      [] r.t = "grp"   -> GrpEach(Match(r.r, s, m), 1, m.p)
      [] r.t = "wordb" -> IF IsWordAt(s, m.p - 1) # IsWordAt(s, m.p) THEN <<m>> ELSE <<>>
      [] r.t = "bol"   -> IF m.p = 1 THEN <<m>> ELSE <<>>
      [] r.t = "eol"   -> IF m.p = Len(s) + 1 THEN <<m>> ELSE <<>>

\* rs[i], rs[i+1], ... in sequence, from each of the states ms
MatchCat(rs, i, s, ms) ==
    IF i > Len(rs) \/ ms = <<>> THEN ms
    ELSE MatchCat(rs, i + 1, s, MatchEach(rs[i], s, ms, 1))

\* r from each of the states ms[j], ms[j+1], ...
MatchEach(r, s, ms, j) ==
    IF j > Len(ms) THEN <<>>
    ELSE Match(r, s, ms[j]) \o MatchEach(r, s, ms, j + 1)

MatchAlt(rs, i, s, m) ==
    IF i > Len(rs) THEN <<>>
    ELSE Match(rs[i], s, m) \o MatchAlt(rs, i + 1, s, m)

\* greedy r{lo,hi}: one more r first (an iteration that consumes nothing is
\* not repeated), then stopping here when lo iterations were made
MatchRep(r, lo, hi, s, m) ==
    (IF hi # 0 THEN RepEach(r, lo, hi, s, Match(r, s, m), m.p) ELSE <<>>)
    \o (IF lo <= 0 THEN <<m>> ELSE <<>>)

RepEach(r, lo, hi, s, ms, from) ==
    IF ms = <<>> THEN <<>>
    ELSE (IF Head(ms).p > from THEN MatchRep(r, lo - 1, hi - 1, s, Head(ms)) ELSE <<>>)
         \o RepEach(r, lo, hi, s, Tail(ms), from)

GrpEach(ms, j, from) ==
    IF j > Len(ms) THEN <<>>
    ELSE <<[ms[j] EXCEPT !.g = <<from, ms[j].p - 1>>]>> \o GrpEach(ms, j + 1, from)

NoMatch == [at |-> 0, end |-> 0, g |-> <<0, 0>>]

\* The match of r that starts at position i of s: where it starts, the
\* position after it, and the span of group 1; NoMatch if there is none.
MatchAt(r, s, i) ==
    LET ms == Match(r, s, MState(i))
    IN IF ms = <<>> THEN NoMatch ELSE [at |-> i, end |-> ms[1].p, g |-> ms[1].g]

\* The leftmost match of r in s at or after position i (RegExp exec)
RECURSIVE Search(_, _, _)
Search(r, s, i) ==
    IF i > Len(s) + 1 THEN NoMatch
    ELSE LET m == MatchAt(r, s, i)
         IN IF m.at # 0 THEN m ELSE Search(r, s, i + 1)

\* r.test(s)
test(r, s) == Search(r, s, 1).at # 0

\* match[1] of a match m in s: None when group 1 took no part
Group1(s, m) == IF m.g = <<0, 0>> THEN None ELSE Some(SubSeq(s, m.g[1], m.g[2]))

\* s.replace(r, by) for a global r, from position i on; the matches are
\* looked for in ls, which is s itself, or s in lower case for a regular
\* expression with flag i (every literal of such an expression is lower case)
RECURSIVE ReplaceAll(_, _, _, _, _)
ReplaceAll(r, s, ls, by, i) ==
    LET m == Search(r, ls, i)
    IN IF m.at = 0 THEN SubSeq(s, i, Len(s))
       ELSE IF m.end = m.at
            THEN SubSeq(s, i, m.at - 1) \o by \o SubSeq(s, m.at, IF m.at > Len(s) THEN Len(s) ELSE m.at)
                 \o ReplaceAll(r, s, ls, by, m.at + 1)
            ELSE SubSeq(s, i, m.at - 1) \o by \o ReplaceAll(r, s, ls, by, m.end)

replace(s, r, by)  == ReplaceAll(r, s, s, by, 1)
replaceI(s, r, by) == ReplaceAll(r, s, toLowerCase(s), by, 1)

\* s.replace(r, by) for an r without flag g: the first match only
ReplaceFirst(r, s, ls, by) ==
    LET m == Search(r, ls, 1)
    IN IF m.at = 0 THEN s
       ELSE SubSeq(s, 1, m.at - 1) \o by \o SubSeq(s, m.end, Len(s))

\* s.split(r), from position p on, for an r that matches no empty string
RECURSIVE Split(_, _, _, _)
Split(r, s, ls, p) ==
    LET m == Search(r, ls, p)
    IN IF m.at = 0 \/ m.at > Len(s) THEN <<SubSeq(s, p, Len(s))>>
       ELSE <<SubSeq(s, p, m.at - 1)>> \o Split(r, s, ls, m.end)

-----------------------------------------------------------------------------
(* src/src/services/nlp.ts: the single-task parser                         *)

\* Object.entries(categoryKeywords): the categories in declaration order
categoryKeywords == <<
    <<"work", <<"work", "meeting", "email", "project", "deadline", "client", "report",
                "presentation", "office", "boss", "colleague">> >>,
    <<"health", <<"gym", "workout", "exercise", "run", "yoga", "doctor", "medicine", "walk",
                  "sleep", "diet", "meditate", "stretch">> >>,
    <<"personal", <<"home", "clean", "laundry", "grocery", "cook", "organize", "declutter",
                    "fix", "repair">> >>,
    <<"finance", <<"pay", "bill", "budget", "invest", "bank", "tax", "expense", "savings",
                   "money", "rent", "mortgage">> >>,
    <<"learning", <<"read", "study", "learn", "course", "book", "practice", "tutorial",
                    "class", "lesson", "skill">> >>,
    <<"social", <<"call", "visit", "meet", "friend", "family", "party", "dinner", "lunch",
                  "birthday", "event">> >> >>

\* Object.entries(priorityKeywords)
priorityKeywords == <<
    <<"high", <<"urgent", "important", "critical", "asap", "immediately", "priority", "must">> >>,
    <<"medium", <<"should", "need to", "plan to">> >>,
    <<"low", <<"maybe", "could", "sometime", "eventually", "when possible">> >> >>

recurrencePatterns == <<
    [pattern |-> Cat(<<Lit("every"), Plus(S_), Lit("day")>>), type |-> "daily", interval |-> 1],
    [pattern |-> Lit("daily"), type |-> "daily", interval |-> 1],
    [pattern |-> Cat(<<Lit("every"), Plus(S_), Lit("week")>>), type |-> "weekly", interval |-> 1],
    [pattern |-> Lit("weekly"), type |-> "weekly", interval |-> 1],
    [pattern |-> Cat(<<Lit("every"), Plus(S_), Lit("month")>>), type |-> "monthly", interval |-> 1],
    [pattern |-> Lit("monthly"), type |-> "monthly", interval |-> 1],
    [pattern |-> Cat(<<Lit("every"), Plus(S_), Grp(Plus(D_)), Plus(S_), Lit("day"), Opt(Lit("s"))>>),
     type |-> "daily"],
    [pattern |-> Cat(<<Lit("every"), Plus(S_), Grp(Plus(D_)), Plus(S_), Lit("week"), Opt(Lit("s"))>>),
     type |-> "weekly"] >>

\* a plausible slip: the week starting on Monday
dayNames_mondayFirst == <<"monday", "tuesday", "wednesday", "thursday", "friday", "saturday", "sunday">>

dayNames == <<"sunday", "monday", "tuesday", "wednesday", "thursday", "friday", "saturday">>

\* the first entry, from entry i on, that has a keyword occurring in lowerText
RECURSIVE FirstEntry(_, _, _)
FirstEntry(entries, lowerText, i) ==
    IF i > Len(entries) THEN None
    ELSE IF \E j \in 1..Len(entries[i][2]) : includes(lowerText, entries[i][2][j])
         THEN Some(entries[i][1])
         ELSE FirstEntry(entries, lowerText, i + 1)

\* a plausible slip: the text not lower-cased before the search
detectCategory_caseSensitive(t) == FirstEntry(categoryKeywords, t, 1)

detectCategory(t) == FirstEntry(categoryKeywords, toLowerCase(t), 1)

\* a plausible slip: medium being the default, only high and low are looked for
detectPriority_highLowOnly(t) ==
    LET p == FirstEntry(<<priorityKeywords[1], priorityKeywords[3]>>, toLowerCase(t), 1)
    IN IF p # None THEN p[1] ELSE "medium"

detectPriority(t) ==
    LET p == FirstEntry(priorityKeywords, toLowerCase(t), 1)
    IN IF p # None THEN p[1] ELSE "medium"

\* /every\s+((?:(?:monday|...|sunday)(?:\s*(?:,|and)\s*)?)+)/i
everyDaysRe ==
    Cat(<<Lit("every"), Plus(S_),
          Grp(Plus(Cat(<<Lits(<<"monday", "tuesday", "wednesday", "thursday", "friday",
                                "saturday", "sunday">>),
                         Opt(Cat(<<Star(S_), Lits(<<",", "and">>), Star(S_)>>))>>)))>>)

\* a plausible slip: the interval taken from the table row (1 when the row
\* has none) instead of the number matched
RECURSIVE FirstPattern_noInterval(_, _)
FirstPattern_noInterval(lowerText, i) ==
    IF i > Len(recurrencePatterns) THEN None
    ELSE IF test(recurrencePatterns[i].pattern, lowerText)
         THEN Some([type |-> recurrencePatterns[i].type, interval |-> 1])
         ELSE FirstPattern_noInterval(lowerText, i + 1)

\* the loop over recurrencePatterns, from pattern i on
RECURSIVE FirstPattern(_, _)
FirstPattern(lowerText, i) ==
    IF i > Len(recurrencePatterns) THEN None
    ELSE LET m  == Search(recurrencePatterns[i].pattern, lowerText, 1)
             m1 == Group1(lowerText, m)
         IN IF m.at # 0
            THEN Some([type |-> recurrencePatterns[i].type,
                       interval |-> IF m1 # None /\ m1[1] # "" THEN parseInt(m1[1]) ELSE 1])
            ELSE FirstPattern(lowerText, i + 1)

\* a plausible slip: the pattern table consulted before the weekday list
detectRecurrence_tableFirst(t) ==
    LET lowerText == toLowerCase(t)
        everyDaysMatch == Search(everyDaysRe, lowerText, 1)
        daysText == toLowerCase(Group1(lowerText, everyDaysMatch)[1])
        days == SelectSeq(<<0, 1, 2, 3, 4, 5, 6>>, LAMBDA index : includes(daysText, dayNames[index + 1]))
    IN IF FirstPattern(lowerText, 1) # None THEN FirstPattern(lowerText, 1)
       ELSE IF everyDaysMatch.at # 0 /\ Len(days) > 0
       THEN Some([type |-> "weekly", days |-> days, interval |-> 1])
       ELSE None

detectRecurrence(t) ==
    LET lowerText == toLowerCase(t)
        everyDaysMatch == Search(everyDaysRe, lowerText, 1)
        daysText == toLowerCase(Group1(lowerText, everyDaysMatch)[1])
        days == SelectSeq(<<0, 1, 2, 3, 4, 5, 6>>, LAMBDA index : includes(daysText, dayNames[index + 1]))
    IN IF everyDaysMatch.at # 0 /\ Len(days) > 0
       THEN Some([type |-> "weekly", days |-> days, interval |-> 1])
       ELSE FirstPattern(lowerText, 1)

\* /every\s+\w+day/i
everyWdayRe == Cat(<<Lit("every"), Plus(S_), Plus(W_), Lit("day")>>)

\* a plausible slip: Math.floor for Math.ceil
ceilDays_floor(hours) == hours \div 24

\* Math.ceil(ms / (1000 * 60 * 60 * 24)), the time measured in hours here
ceilDays(hours) == IF hours % 24 = 0 THEN hours \div 24 ELSE (hours \div 24) + 1

\* a plausible slip: the weekly branch tried before the daily one
detectTimeframe_weeklyFirst(t, hasRecurrence, dueDate) ==
    LET lowerText == toLowerCase(t)
        diffDays  == ceilDays(dueDate[1])
    IN IF hasRecurrence /\ (\/ includes(lowerText, "weekly")
                            \/ includes(lowerText, "every week")
                            \/ test(everyWdayRe, lowerText))
       THEN "weekly"
       ELSE IF hasRecurrence /\ (includes(lowerText, "daily") \/ includes(lowerText, "every day"))
       THEN "daily"
       ELSE IF hasRecurrence /\ (includes(lowerText, "monthly") \/ includes(lowerText, "every month"))
       THEN "monthly"
       ELSE IF dueDate # None /\ diffDays <= 1 THEN "daily"
       ELSE IF dueDate # None /\ diffDays <= 7 THEN "weekly"
       ELSE IF dueDate # None /\ diffDays <= 30 THEN "monthly"
       ELSE "once"

\* dueDate: the hours from now to the due date, if there is one
detectTimeframe(t, hasRecurrence, dueDate) ==
    LET lowerText == toLowerCase(t)
        diffDays  == ceilDays(dueDate[1])
    IN IF hasRecurrence /\ (includes(lowerText, "daily") \/ includes(lowerText, "every day"))
       THEN "daily"
       ELSE IF hasRecurrence /\ (\/ includes(lowerText, "weekly")
                                 \/ includes(lowerText, "every week")
                                 \/ test(everyWdayRe, lowerText))
       THEN "weekly"
       ELSE IF hasRecurrence /\ (includes(lowerText, "monthly") \/ includes(lowerText, "every month"))
       THEN "monthly"
       ELSE IF dueDate # None /\ diffDays <= 1 THEN "daily"
       ELSE IF dueDate # None /\ diffDays <= 7 THEN "weekly"
       ELSE IF dueDate # None /\ diffDays <= 30 THEN "monthly"
       ELSE "once"

\* the regular expressions of cleanTitle, in the order they are applied
patternsToRemove == <<
    \* /\b(at|on|by|before|after)\s+\d{1,2}(:\d{2})?\s*(am|pm)?\b/gi
    Cat(<<WordB, Lits(<<"at", "on", "by", "before", "after">>), Plus(S_), Rep(D_, 1, 2),
          Opt(Cat(<<Lit(":"), Rep(D_, 2, 2)>>)), Star(S_), Opt(Lits(<<"am", "pm">>)), WordB>>),
    \* /\b(today|tomorrow|tonight|this\s+\w+|next\s+\w+)\b/gi
    Cat(<<WordB, Alt(<<Lit("today"), Lit("tomorrow"), Lit("tonight"),
                       Cat(<<Lit("this"), Plus(S_), Plus(W_)>>),
                       Cat(<<Lit("next"), Plus(S_), Plus(W_)>>)>>), WordB>>),
    \* /\bevery\s+(day|week|month|\w+day(?:\s*(?:,|and)\s*\w+day)*)\b/gi
    Cat(<<WordB, Lit("every"), Plus(S_),
          Alt(<<Lit("day"), Lit("week"), Lit("month"),
                Cat(<<Plus(W_), Lit("day"),
                      Star(Cat(<<Star(S_), Lits(<<",", "and">>), Star(S_), Plus(W_), Lit("day")>>))>>)>>),
          WordB>>),
    \* /\b(daily|weekly|monthly)\b/gi
    Cat(<<WordB, Lits(<<"daily", "weekly", "monthly">>), WordB>>),
    \* /\b(urgent|important|asap)\b/gi
    Cat(<<WordB, Lits(<<"urgent", "important", "asap">>), WordB>>),
    \* /\b\d{1,2}\/\d{1,2}(?:\/\d{2,4})?\b/g
    Cat(<<WordB, Rep(D_, 1, 2), Lit("/"), Rep(D_, 1, 2),
          Opt(Cat(<<Lit("/"), Rep(D_, 2, 4)>>)), WordB>>) >>

\* the loop of cleanTitle over patternsToRemove, from pattern i on
RECURSIVE RemovePatterns(_, _)
RemovePatterns(cleaned, i) ==
    IF i > Len(patternsToRemove) THEN cleaned
    ELSE RemovePatterns(replaceI(cleaned, patternsToRemove[i], ""), i + 1)

\* the last step of cleanTitle: cleaned.charAt(0).toUpperCase() + cleaned.slice(1)
capitalize(cleaned) ==
    IF Len(cleaned) > 0
    THEN toUpperCase(At(cleaned, 1)) \o SubSeq(cleaned, 2, Len(cleaned))
    ELSE cleaned

cleanTitle(t) == capitalize(trim(replace(RemovePatterns(t, 1), Plus(S_), " ")))

\* n.toString().padStart(2, '0') for 0 <= n <= 59
pad2(n) == At(DigitChars, (n \div 10) + 1) \o At(DigitChars, (n % 10) + 1)

\* parsed: parsed[0] of chrono.parse(input), None when parsed is empty, else
\* [date |-> the hours from now to result.start.date(),
\*  hour |-> result.start.get('hour') if result.start.isCertain('hour'),
\*  minute |-> result.start.get('minute')]
parseNaturalLanguage(input, parsed) ==
    LET dueDate == IF parsed # None THEN Some(parsed[1].date) ELSE None
        dueTime == IF parsed # None /\ parsed[1].hour # None
                   THEN Some(pad2(parsed[1].hour[1]) \o ":" \o pad2(parsed[1].minute))
                   ELSE None
        recurrence == detectRecurrence(input)
        category   == detectCategory(input)
        priority   == detectPriority(input)
        timeframe  == detectTimeframe(input, recurrence # None, dueDate)
        title      == cleanTitle(input)
    IN [title |-> title, category |-> category, dueDate |-> dueDate, dueTime |-> dueTime,
        timeframe |-> timeframe, recurrence |-> recurrence, priority |-> priority]

\* the decimal digits of a natural number
RECURSIVE digits(_)
digits(n) ==
    IF n < 10 THEN At(DigitChars, n + 1)
    ELSE digits(n \div 10) \o At(DigitChars, (n % 10) + 1)

\* `${x}` of a template literal, x an optional integer
template(x) ==
    IF x = None THEN "undefined"
    ELSE IF x[1] < 0 THEN "-" \o digits(-x[1])
    ELSE digits(x[1])

\* recurrence.days.map(d => dayNames[d].slice(0, 3)).join(', ')
RECURSIVE dayLabels(_)
dayLabels(days) ==
    IF days = <<>> THEN ""
    ELSE SubSeq(dayNames[Head(days) + 1], 1, 3)
         \o (IF Len(days) > 1 THEN ", " ELSE "")
         \o dayLabels(Tail(days))

\* a plausible slip: the interval never rendered
formatRecurrence_noInterval(r) ==
    IF r.type = "daily" THEN "Daily"
    ELSE IF r.type = "weekly"
    THEN IF r.days # None /\ Len(r.days[1]) > 0
         THEN "Every " \o dayLabels(r.days[1])
         ELSE "Weekly"
    ELSE IF r.type = "monthly" THEN "Monthly"
    ELSE ""

\* r: [type, interval (optional), days (optional)]
formatRecurrence(r) ==
    IF r.type = "daily"
    THEN IF r.interval = Some(1) THEN "Daily" ELSE "Every " \o template(r.interval) \o " days"
    ELSE IF r.type = "weekly"
    THEN IF r.days # None /\ Len(r.days[1]) > 0
         THEN "Every " \o dayLabels(r.days[1])
         ELSE IF r.interval = Some(1) THEN "Weekly" ELSE "Every " \o template(r.interval) \o " weeks"
    ELSE IF r.type = "monthly"
    THEN IF r.interval = Some(1) THEN "Monthly" ELSE "Every " \o template(r.interval) \o " months"
    ELSE ""

\* a plausible slip: the table's RegExp literals written with the sticky flag
patternFlags_sticky == "iy"

\* the flags of the RegExp literals of recurrencePatterns
patternFlags == "i"

\* s.match(rx) on a RegExp object rx with the given flags whose lastIndex is
\* li: whether it matched, match[1], and the lastIndex it leaves.  With g all
\* the matches are collected (match[1] is the second one) and lastIndex ends
\* at 0; with y the match must start at lastIndex, which moves to its end;
\* otherwise the search starts at 0 and lastIndex is left alone.
StringMatch(r, flags, s, li) ==
    IF includes(flags, "g")
    THEN LET m  == Search(r, s, 1)
             m2 == IF m.at = 0 THEN NoMatch
                   ELSE Search(r, s, IF m.end > m.at THEN m.end ELSE m.end + 1)
         IN [found |-> m.at # 0,
             m1 |-> IF m2.at # 0 THEN Some(SubSeq(s, m2.at, m2.end - 1)) ELSE None,
             lastIndex |-> 0]
    ELSE IF includes(flags, "y")
    THEN LET m == IF li > Len(s) THEN NoMatch ELSE MatchAt(r, s, li + 1)
         IN [found |-> m.at # 0,
             m1 |-> Group1(s, m),
             lastIndex |-> IF m.at # 0 THEN m.end - 1 ELSE 0]
    ELSE LET m == Search(r, s, 1)
         IN [found |-> m.at # 0, m1 |-> Group1(s, m), lastIndex |-> li]

\* the loop over recurrencePatterns run on the RegExp objects of the table,
\* whose lastIndex values are li, from pattern i on: the pattern found and
\* the lastIndex values left
RECURSIVE FirstPatternOn(_, _, _)
FirstPatternOn(lowerText, i, li) ==
    IF i > Len(recurrencePatterns) THEN [ret |-> None, lastIndex |-> li]
    ELSE LET m == StringMatch(recurrencePatterns[i].pattern, patternFlags, lowerText, li[i])
         IN IF m.found
            THEN [ret |-> Some([type |-> recurrencePatterns[i].type,
                                interval |-> IF m.m1 # None /\ m.m1[1] # ""
                                             THEN parseInt(m.m1[1]) ELSE 1]),
                  lastIndex |-> [li EXCEPT ![i] = m.lastIndex]]
            ELSE FirstPatternOn(lowerText, i + 1, [li EXCEPT ![i] = m.lastIndex])

\* detectRecurrence on the RegExp objects of the table: the weekday list is
\* matched by a RegExp literal of its own and returns before the loop
detectRecurrenceOn(t, li) ==
    IF detectRecurrence(t) # None /\ "days" \in DOMAIN detectRecurrence(t)[1]
    THEN [ret |-> detectRecurrence(t), lastIndex |-> li]
    ELSE FirstPatternOn(toLowerCase(t), 1, li)

\* the result of parseNaturalLanguage with the recurrence rc found on the
\* RegExp objects of the table
WithRecurrence(input, base, rc) ==
    [ret |-> [base EXCEPT !.recurrence = rc.ret,
                          !.timeframe = detectTimeframe(input, rc.ret # None, base.dueDate)],
     lastIndex |-> rc.lastIndex]

\* parseNaturalLanguage on the RegExp objects of the table
parseNaturalLanguageOn(input, parsed, li) ==
    WithRecurrence(input, parseNaturalLanguage(input, parsed), detectRecurrenceOn(input, li))

-----------------------------------------------------------------------------
(* Inputs: a text is made of at most n words of a vocabulary               *)

\* a freshly created RegExp object has lastIndex 0
ZeroIndex == [i \in 1..Len(recurrencePatterns) |-> 0]

\* no RecurrencePattern and no due date at hand; nothing called yet
NoPattern == stored = None /\ due = None
NoSession ==
    /\ lastIndex = ZeroIndex
    /\ log = <<>>
    /\ taskForm = None
    /\ useTasks = None
    /\ dailyTracker = None
    /\ taskItem = None
    /\ shoppingList = None

\* no parsing function called: the state of the call variables while a
\* component is looked at
NoCall ==
    /\ words = <<>>
    /\ text = ""
    /\ chrono = None
    /\ pc = "idle"
    /\ ret = None
    /\ NoPattern
    /\ lastIndex = ZeroIndex
    /\ log = <<>>

WordSeqs(V, n) == UNION {[1..k -> V] : k \in 0..n}

RECURSIVE Join(_)
Join(ws) == IF ws = <<>> THEN "" ELSE Head(ws) \o Join(Tail(ws))

-----------------------------------------------------------------------------
(* detectRecurrence applied to a text                                      *)

MaxRecurrenceWords == 3

\* "Monday" starts a weekday list after "every "; ", wednesday" and
\* " and SUNDAY" continue one
WeekdayWords == {"Monday", ", wednesday", " and SUNDAY"}
NumberWords  == {"3 ", "0 "}

RecurrenceWords ==
    {"every ", "day", " daily", "week", " weekly", "month", " monthly", "days", "weeks"}
    \cup WeekdayWords \cup NumberWords

InitRecurrence ==
    /\ words \in WordSeqs(RecurrenceWords, MaxRecurrenceWords)
    /\ text = Join(words)
    /\ chrono = None
    /\ pc = "call"
    /\ ret = None
    /\ NoPattern
    /\ NoSession

DetectRecurrence ==
    /\ pc = "call"
    /\ ret' = detectRecurrence(text)
    /\ pc' = "detectRecurrence"
    /\ UNCHANGED <<args, shared>>

NextRecurrence == DetectRecurrence

SpecRecurrence == InitRecurrence /\ [][NextRecurrence]_vars

\* What the words say, read word by word -----------------------------------

\* position i of ws starts "every <weekday>"
EveryWeekdayAt(ws, i) == i + 1 <= Len(ws) /\ ws[i] = "every " /\ ws[i + 1] = "Monday"

HasWeekdayList(ws) == \E i \in 1..Len(ws) : EveryWeekdayAt(ws, i)

FirstWeekdayList(ws) == CHOOSE i \in 1..Len(ws) :
    EveryWeekdayAt(ws, i) /\ \A j \in 1..(i - 1) : ~EveryWeekdayAt(ws, j)

\* the words of the weekday list after the "every " at position i
ListWords(ws, i) == {j \in (i + 1)..Len(ws) : \A k \in (i + 1)..j : ws[k] \in WeekdayWords}

DayIndex(w) == CASE w = "Monday" -> 1 [] w = ", wednesday" -> 3 [] w = " and SUNDAY" -> 0

NamedDays(ws) == {DayIndex(ws[j]) : j \in ListWords(ws, FirstWeekdayList(ws))}

Range(q) == {q[i] : i \in 1..Len(q)}

IsWeeklyOn(r, days) ==
    /\ r # None
    /\ DOMAIN r[1] = {"type", "days", "interval"}
    /\ r[1].type = "weekly"
    /\ r[1].interval = 1
    /\ Range(r[1].days) = days
    /\ Len(r[1].days) = Cardinality(days)

HasTablePhrase(ws) ==
    \/ \E i \in 1..Len(ws) : ws[i] \in {" daily", " weekly", " monthly"}
    \/ \E i \in 1..(Len(ws) - 1) :
        ws[i] = "every " /\ ws[i + 1] \in {"day", "days", "week", "weeks", "month"} \cup NumberWords

\* C6: the weekday-list branch takes precedence over every table pattern: a
\* text with "every <weekday>" gives the weekly pattern with days and
\* interval 1 even if it also holds a phrase of the pattern table, and a
\* pattern with days is returned only for such a text.
C6_WeekdayPrecedence ==
    pc = "detectRecurrence" =>
        /\ (HasWeekdayList(words) /\ HasTablePhrase(words)) =>
               (ret # None /\ ret[1].type = "weekly" /\ ret[1].interval = 1
                /\ "days" \in DOMAIN ret[1] /\ Len(ret[1].days) > 0)
        /\ (~HasWeekdayList(words) /\ ret # None) => "days" \notin DOMAIN ret[1]

\* "every Monday daily" gave the weekly pattern on Monday
C6_Witness ==
    /\ pc = "detectRecurrence"
    /\ words = <<"every ", "Monday", " daily">>
    /\ ret = Some([type |-> "weekly", days |-> <<1>>, interval |-> 1])

\* some word of ws is one of S
HasWord(ws, S) == \E i \in 1..Len(ws) : ws[i] \in S

\* "every " is followed by a word of S
EveryThen(ws, S) == \E i \in 1..(Len(ws) - 1) : ws[i] = "every " /\ ws[i + 1] \in S

\* position i starts "every N <unit>", the unit being a word of S
EveryNAt(ws, i, S) ==
    i + 2 <= Len(ws) /\ ws[i] = "every " /\ ws[i + 1] \in NumberWords /\ ws[i + 2] \in S

\* the N of the first "every N <unit>" with the unit a word of S
FirstN(ws, S) ==
    LET i == CHOOSE i \in 1..Len(ws) : EveryNAt(ws, i, S) /\ \A j \in 1..(i - 1) : ~EveryNAt(ws, j, S)
    IN IF ws[i + 1] = "3 " THEN 3 ELSE 0

Pattern(type, interval) == Some([type |-> type, interval |-> interval])

\* the recurrence the pattern table gives for the words: the first phrase of
\* the table, in table order, that the words hold
TableRecurrence(ws) ==
    IF EveryThen(ws, {"day", "days"}) THEN Pattern("daily", 1)
    ELSE IF HasWord(ws, {" daily"}) THEN Pattern("daily", 1)
    ELSE IF EveryThen(ws, {"week", "weeks", " weekly"}) THEN Pattern("weekly", 1)
    ELSE IF HasWord(ws, {" weekly"}) THEN Pattern("weekly", 1)
    ELSE IF EveryThen(ws, {"month", " monthly"}) THEN Pattern("monthly", 1)
    ELSE IF HasWord(ws, {" monthly"}) THEN Pattern("monthly", 1)
    ELSE IF \E i \in 1..Len(ws) : EveryNAt(ws, i, {"day", "days"})
         THEN Pattern("daily", FirstN(ws, {"day", "days"}))
    ELSE IF \E i \in 1..Len(ws) : EveryNAt(ws, i, {"week", "weeks"})
         THEN Pattern("weekly", FirstN(ws, {"week", "weeks"}))
    ELSE None

\* C7: for a text without an "every <weekday>" list, detectRecurrence returns
\* the result of the first pattern that matches, in table order (every day,
\* daily, every week, weekly, every month, monthly, every N days, every N
\* weeks): interval 1 for the six fixed phrases, N for the two numeric ones,
\* and no recurrence when nothing matches.
C7_TableOrder ==
    (pc = "detectRecurrence" /\ ~HasWeekdayList(words)) => ret = TableRecurrence(words)

\* "every 3 weeks" gave {weekly, 3}
C7_Witness ==
    /\ pc = "detectRecurrence"
    /\ words = <<"every ", "3 ", "weeks">>
    /\ ret = Some([type |-> "weekly", interval |-> 3])

\* C8: every recurrence pattern detectRecurrence returns has an interval that
\* is a positive integer.
C8_PositiveInterval ==
    (pc = "detectRecurrence" /\ ret # None) => ret[1].interval >= 1

-----------------------------------------------------------------------------
(* detectCategory (single-task) applied to a text                          *)

MaxCategoryWords == 3

\* each word with the categories that have a keyword inside it
CategoryWords == <<
    <<"schedule a ", {}>>,
    <<"with the ", {}>>,
    <<"meeting with the ", {"work", "social"}>>,     \* meeting, meet
    <<"client", {"work"}>>,
    <<"GYM ", {"health"}>>,
    <<"brunch ", {"health"}>>,                        \* run
    <<"Clean ", {"personal"}>>,
    <<"parent ", {"finance"}>>,                       \* rent
    <<"Facebook ", {"learning"}>>,                    \* book
    <<"call ", {"social"}>> >>

Vocabulary(table) == {table[i][1] : i \in 1..Len(table)}

\* the tag of word w in a table of tagged words
TagOf(table, w) == table[CHOOSE i \in 1..Len(table) : table[i][1] = w][2]

InitCategory ==
    /\ words \in WordSeqs(Vocabulary(CategoryWords), MaxCategoryWords)
    /\ text = Join(words)
    /\ chrono = None
    /\ pc = "call"
    /\ ret = None
    /\ NoPattern
    /\ NoSession

DetectCategory ==
    /\ pc = "call"
    /\ ret' = detectCategory(text)
    /\ pc' = "detectCategory"
    /\ UNCHANGED <<args, shared>>

NextCategory == DetectCategory

SpecCategory == InitCategory /\ [][NextCategory]_vars

CategoryOrder == <<"work", "health", "personal", "finance", "learning", "social">>

\* the categories that have a keyword somewhere in the words
CategoriesIn(ws) == UNION {TagOf(CategoryWords, ws[i]) : i \in 1..Len(ws)}

\* C9: detectCategory returns the first category, in the order work, health,
\* personal, finance, learning, social, that has a keyword occurring in the
\* text as a substring, letter case ignored, and undefined when no category
\* has one.
C9_FirstCategory ==
    pc = "detectCategory" =>
        IF CategoriesIn(words) = {} THEN ret = None
        ELSE /\ ret # None
             /\ \E k \in 1..Len(CategoryOrder) :
                    /\ ret[1] = CategoryOrder[k]
                    /\ CategoryOrder[k] \in CategoriesIn(words)
                    /\ \A j \in 1..(k - 1) : CategoryOrder[j] \notin CategoriesIn(words)

\* "schedule a meeting with the client" gave work
C9_Witness ==
    /\ pc = "detectCategory"
    /\ text = "schedule a meeting with the client"
    /\ ret = Some("work")

-----------------------------------------------------------------------------
(* detectPriority (single-task) applied to a text                          *)

MaxPriorityWords == 3

\* each word with the priority levels that have a keyword inside it
PriorityWords == <<
    <<"this is ", {}>>,
    <<"call mom ", {}>>,
    <<"urgent, ", {"high"}>>,
    <<"fix it ASAP ", {"high"}>>,
    <<"mustard ", {"high"}>>,                         \* must
    <<"Should ", {"medium"}>>,
    <<"need to ", {"medium"}>>,
    <<"maybe ", {"low"}>>,
    <<"when possible ", {"low"}>>,
    <<"could ", {"low"}>> >>

InitPriority ==
    /\ words \in WordSeqs(Vocabulary(PriorityWords), MaxPriorityWords)
    /\ text = Join(words)
    /\ chrono = None
    /\ pc = "call"
    /\ ret = None
    /\ NoPattern
    /\ NoSession

DetectPriority ==
    /\ pc = "call"
    /\ ret' = detectPriority(text)
    /\ pc' = "detectPriority"
    /\ UNCHANGED <<args, shared>>

NextPriority == DetectPriority

SpecPriority == InitPriority /\ [][NextPriority]_vars

\* the priority levels that have a keyword somewhere in the words
PrioritiesIn(ws) == UNION {TagOf(PriorityWords, ws[i]) : i \in 1..Len(ws)}

\* C10: detectPriority returns high when a high keyword occurs, else medium
\* when a medium keyword occurs (even beside a low keyword), else low when a
\* low keyword occurs, and medium when no keyword occurs.
C10_PriorityOrder ==
    pc = "detectPriority" =>
        ret = IF "high" \in PrioritiesIn(words) THEN "high"
              ELSE IF "medium" \in PrioritiesIn(words) THEN "medium"
              ELSE IF "low" \in PrioritiesIn(words) THEN "low"
              ELSE "medium"

\* a text with a medium and a low keyword and no high keyword gave medium
C10_Witness ==
    /\ pc = "detectPriority"
    /\ words = <<"maybe ", "call mom ", "Should ">>
    /\ ret = "medium"

-----------------------------------------------------------------------------
(* cleanTitle applied to a text                                            *)

MaxTitleWords == 3

TitleWords ==
    {"today", "every", " urgent", " day", " call mom", " at 5pm", " next", " week",
     " Monday", " 3/4", " daily"}

InitCleanTitle ==
    /\ words \in WordSeqs(TitleWords, MaxTitleWords)
    /\ text = Join(words)
    /\ chrono = None
    /\ pc = "call"
    /\ ret = None
    /\ NoPattern
    /\ NoSession

CleanTitle ==
    /\ pc = "call"
    /\ ret' = cleanTitle(text)
    /\ pc' = "cleanTitle"
    /\ UNCHANGED <<args, shared>>

NextCleanTitle == CleanTitle

SpecCleanTitle == InitCleanTitle /\ [][NextCleanTitle]_vars

\* C2: cleanTitle is idempotent: cleaning a cleaned title changes nothing.
C2_Idempotent == pc = "cleanTitle" => cleanTitle(ret) = ret

-----------------------------------------------------------------------------
(* parseNaturalLanguage applied to a text                                  *)

\* What chrono.parse may find in a text: nothing, or a date (in hours from
\* now) with or without a clock time.
ChronoResults ==
    {None,
     Some([date |-> 12, hour |-> None, minute |-> 0]),
     Some([date |-> 100, hour |-> Some(17), minute |-> 0]),
     Some([date |-> 2000, hour |-> Some(9), minute |-> 5])}

\* the words in which chrono.parse can find a date or a time
DateWords == {"today", " at 5pm", " next", " Monday", " 3/4"}

\* The callers hand over a text that is not blank (TaskForm parses when
\* input.length > 3, and on submit when input.trim() is not empty); a date is
\* found only in a text that holds a date phrase.
InitParse ==
    /\ words \in WordSeqs(TitleWords, MaxTitleWords) \ {<<>>}
    /\ text = Join(words)
    /\ chrono \in ChronoResults
    /\ chrono # None => \E i \in 1..Len(words) : words[i] \in DateWords
    /\ pc = "call"
    /\ ret = None
    /\ NoPattern
    /\ NoSession

ParseNaturalLanguage ==
    /\ pc = "call"
    /\ ret' = parseNaturalLanguage(text, chrono)
    /\ pc' = "parseNaturalLanguage"
    /\ UNCHANGED <<args, shared>>

NextParse == ParseNaturalLanguage

SpecParse == InitParse /\ [][NextParse]_vars

\* C1: parseNaturalLanguage returns a non-empty title (the raw input when
\* cleanTitle strips everything), a timeframe among daily/weekly/monthly/once
\* and a priority among low/medium/high.
C1_TitleNonEmpty ==
    pc = "parseNaturalLanguage" =>
        /\ ret.title # ""
        /\ cleanTitle(text) = "" => ret.title = text
        /\ ret.timeframe \in {"daily", "weekly", "monthly", "once"}
        /\ ret.priority \in {"low", "medium", "high"}

-----------------------------------------------------------------------------
(* src/src/components/DailyPrompt.tsx: the multi-task segmenter            *)

workRe ==
    Cat(<<WordB, Lits(<<"work", "office", "meeting", "email", "project", "deadline", "boss",
                        "client", "report", "presentation", "call with", "zoom", "teams",
                        "standup", "sprint", "jira", "slack">>), WordB>>)

healthRe ==
    Cat(<<WordB, Lits(<<"gym", "exercise", "workout", "run", "walk", "jog", "doctor", "dentist",
                        "health", "yoga", "meditat", "sleep", "vitamin", "medicine",
                        "appointment", "checkup", "therapy", "physio">>), WordB>>)

financeRe ==
    Cat(<<WordB, Lits(<<"pay", "bill", "bank", "money", "budget", "tax", "invoice", "rent",
                        "mortgage", "insurance", "invest", "salary", "expense", "transfer",
                        "savings">>), WordB>>)

socialRe ==
    Cat(<<WordB, Lits(<<"call mom", "call dad", "call friend", "visit", "party", "dinner with",
                        "lunch with", "meet up", "friend", "family", "birthday", "wedding",
                        "event", "drinks with", "coffee with">>), WordB>>)

\* /\b(book|reserve|schedule)\s+(a\s+)?(train|...|room)\b/
bookingRe ==
    Cat(<<WordB, Lits(<<"book", "reserve", "schedule">>), Plus(S_), Opt(Cat(<<Lit("a"), Plus(S_)>>)),
          Lits(<<"train", "flight", "ticket", "hotel", "appointment", "table", "restaurant",
                 "cab", "uber", "taxi", "room">>), WordB>>)

learningRe ==
    Cat(<<WordB, Alt(<<Lit("study"), Lit("learn"),
                       Cat(<<Lit("read"), Plus(S_), Opt(Lit("a")), Star(S_), Lit("book")>>),
                       Lit("course"), Lit("class"), Lit("practice"), Lit("tutorial"),
                       Lit("lesson"), Lit("homework"), Lit("research"), Lit("exam"),
                       Lit("textbook"), Lit("library"), Lit("reading")>>), WordB>>)

personalRe ==
    Cat(<<WordB, Alt(<<Lit("clean"), Lit("laundry"), Lit("grocery"), Lit("shop"), Lit("cook"),
                       Lit("errand"), Lit("home"), Lit("house"), Lit("car"), Lit("fix"),
                       Lit("repair"), Lit("organize"), Cat(<<Lit("book"), S_>>), Lit("reserve"),
                       Lit("ticket"), Lit("travel"), Lit("pack"), Lit("trip"), Lit("airport"),
                       Lit("train"), Lit("flight")>>), WordB>>)

\* a plausible slip: learning tried without the booking-action exclusion
DailyPrompt_detectCategory_noBooking(t) ==
    LET lower == toLowerCase(t)
    IN IF test(workRe, lower) THEN "work"
       ELSE IF test(healthRe, lower) THEN "health"
       ELSE IF test(financeRe, lower) THEN "finance"
       ELSE IF test(socialRe, lower) THEN "social"
       ELSE IF test(learningRe, lower) THEN "learning"
       ELSE "personal"

\* detectCategory of DailyPrompt.tsx
DailyPrompt_detectCategory(t) ==
    LET lower == toLowerCase(t)
        isBookingAction == test(bookingRe, lower)
    IN IF test(workRe, lower) THEN "work"
       ELSE IF test(healthRe, lower) THEN "health"
       ELSE IF test(financeRe, lower) THEN "finance"
       ELSE IF test(socialRe, lower) THEN "social"
       ELSE IF ~isBookingAction /\ test(learningRe, lower) THEN "learning"
       ELSE IF test(personalRe, lower) THEN "personal"
       ELSE "personal"

highRe ==
    Cat(<<WordB, Lits(<<"urgent", "asap", "important", "critical", "must", "deadline today",
                        "high priority">>), WordB>>)

lowRe ==
    Cat(<<WordB, Lits(<<"maybe", "later", "when possible", "low priority", "sometime",
                        "eventually">>), WordB>>)

\* detectPriority of DailyPrompt.tsx
DailyPrompt_detectPriority(t) ==
    LET lower == toLowerCase(t)
    IN IF test(highRe, lower) THEN "high"
       ELSE IF test(lowRe, lower) THEN "low"
       ELSE "medium"

\* /^(i need to|i have to|...|i will)\s+/i
prefixRe ==
    Cat(<<Bol, Lits(<<"i need to", "i have to", "i want to", "i should", "i must", "i gotta",
                      "gotta", "need to", "have to", "want to", "should", "must", "going to",
                      "gonna", "will", "i'll", "i will">>), Plus(S_)>>)

\* [\s,.\-] (the en and em dashes of the source's class do not occur in the
\* ASCII texts modelled)
Punct == Cls(Space \cup {",", ".", "-"})

\* /^[\s,.\-]+|[\s,.\-]+$/g
edgesRe == Alt(<<Cat(<<Bol, Plus(Punct)>>), Cat(<<Plus(Punct), Eol>>)>>)

\* .replace(/^./, c => c.toUpperCase()): /^./ matches any first character
\* but a line terminator
upperFirst(t) ==
    IF t # "" /\ At(t, 1) # "\n"
    THEN toUpperCase(At(t, 1)) \o SubSeq(t, 2, Len(t))
    ELSE t

cleanTaskText(t) ==
    trim(upperFirst(replace(ReplaceFirst(prefixRe, t, toLowerCase(t), ""), edgesRe, "")))

\* a plausible slip: the comma missing from the delimiters
splitRe_noComma ==
    Alt(<<Cat(<<Plus(S_), Lit("and"), Plus(S_)>>),
          Cat(<<Lit("."), Plus(S_)>>),
          Plus(Lit("\n")),
          Cat(<<Lit(";"), Star(S_)>>),
          Cat(<<Lit("then"), Plus(S_)>>)>>)

\* /(?:,\s*(?:and\s+)?|(?:\s+and\s+)|\.\s+|\n+|;\s*|then\s+)/i
splitRe ==
    Alt(<<Cat(<<Lit(","), Star(S_), Opt(Cat(<<Lit("and"), Plus(S_)>>))>>),
          Cat(<<Plus(S_), Lit("and"), Plus(S_)>>),
          Cat(<<Lit("."), Plus(S_)>>),
          Plus(Lit("\n")),
          Cat(<<Lit(";"), Star(S_)>>),
          Cat(<<Lit("then"), Plus(S_)>>)>>)

\* input.split(...).map(s => s.trim()).filter(s => s.length > 2)
Segments(input) ==
    LET parts   == Split(splitRe, input, toLowerCase(input), 1)
        trimmed == [i \in 1..Len(parts) |-> trim(parts[i])]
    IN SelectSeq(trimmed, LAMBDA x : Len(x) > 2)

\* a plausible slip: the cleaned text itself, not lower-cased, as the key
PushTask_caseSensitive(st, segment, cleaned) ==
    IF Len(cleaned) < 3 THEN st
    ELSE IF cleaned \in st.seen THEN st
    ELSE [tasks |-> Append(st.tasks, [title |-> cleaned,
                                      category |-> DailyPrompt_detectCategory(segment),
                                      priority |-> DailyPrompt_detectPriority(segment),
                                      selected |-> TRUE]),
          seen |-> st.seen \cup {cleaned}]

\* a plausible slip: the new task put in front of the list
PushTask_prepend(st, segment, cleaned) ==
    IF Len(cleaned) < 3 THEN st
    ELSE IF toLowerCase(cleaned) \in st.seen THEN st
    ELSE [tasks |-> <<[title |-> cleaned,
                       category |-> DailyPrompt_detectCategory(segment),
                       priority |-> DailyPrompt_detectPriority(segment),
                       selected |-> TRUE]>> \o st.tasks,
          seen |-> st.seen \cup {toLowerCase(cleaned)}]

\* a plausible slip: only an empty cleaned text is skipped
PushTask_nonEmpty(st, segment, cleaned) ==
    IF Len(cleaned) < 1 THEN st
    ELSE IF toLowerCase(cleaned) \in st.seen THEN st
    ELSE [tasks |-> Append(st.tasks, [title |-> cleaned,
                                      category |-> DailyPrompt_detectCategory(segment),
                                      priority |-> DailyPrompt_detectPriority(segment),
                                      selected |-> TRUE]),
          seen |-> st.seen \cup {toLowerCase(cleaned)}]

\* a plausible slip: category and priority taken from the cleaned title
PushTask_classifyCleaned(st, segment, cleaned) ==
    IF Len(cleaned) < 3 THEN st
    ELSE IF toLowerCase(cleaned) \in st.seen THEN st
    ELSE [tasks |-> Append(st.tasks, [title |-> cleaned,
                                      category |-> DailyPrompt_detectCategory(cleaned),
                                      priority |-> DailyPrompt_detectPriority(cleaned),
                                      selected |-> TRUE]),
          seen |-> st.seen \cup {toLowerCase(cleaned)}]

\* The body of the loop of parseInput for one segment and its cleaned text;
\* st holds the tasks pushed and the keys seen so far.
PushTask(st, segment, cleaned) ==
    IF Len(cleaned) < 3 THEN st
    ELSE IF toLowerCase(cleaned) \in st.seen THEN st
    ELSE [tasks |-> Append(st.tasks, [title |-> cleaned,
                                      category |-> DailyPrompt_detectCategory(segment),
                                      priority |-> DailyPrompt_detectPriority(segment),
                                      selected |-> TRUE]),
          seen |-> st.seen \cup {toLowerCase(cleaned)}]

\* the loop of parseInput over the segments, from segment i on
RECURSIVE ParseSegments(_, _, _)
ParseSegments(segments, i, st) ==
    IF i > Len(segments) THEN st.tasks
    ELSE ParseSegments(segments, i + 1, PushTask(st, segments[i], cleanTaskText(segments[i])))

parseInput(input) == ParseSegments(Segments(input), 1, [tasks |-> <<>>, seen |-> {}])

-----------------------------------------------------------------------------
(* parseInput applied to a text                                            *)

MaxInputWords == 3

InputWords ==
    {"clean, ", "CLEAN and ", "must clean; ", "clean the house", "I'll run then ",
     "maybe run.\n", "ok, ", "Must go"}

InitParseInput ==
    /\ words \in WordSeqs(InputWords, MaxInputWords)
    /\ text = Join(words)
    /\ chrono = None
    /\ pc = "call"
    /\ ret = None
    /\ NoPattern
    /\ NoSession

ParseInput ==
    /\ pc = "call"
    /\ ret' = parseInput(text)
    /\ pc' = "parseInput"
    /\ UNCHANGED <<args, shared>>

NextParseInput == ParseInput

SpecParseInput == InitParseInput /\ [][NextParseInput]_vars

\* C3 as the specification states it: "clean, clean the house" gives exactly
\* 1 candidate.
C3_OneCandidate ==
    (pc = "parseInput" /\ text = "clean, clean the house") => Len(ret) = 1

\* C3 as amended: "clean, clean the house" gives exactly 2 candidates, "Clean"
\* and "Clean the house": the two segments clean to different texts, so the
\* deduplication, which compares whole cleaned texts ignoring case, drops
\* neither.
C3_TwoCandidates ==
    (pc = "parseInput" /\ text = "clean, clean the house") =>
        /\ Len(ret) = 2
        /\ ret[1].title = "Clean"
        /\ ret[2].title = "Clean the house"

\* parseInput ran on "clean, clean the house"
C3_Witness == pc = "parseInput" /\ text = "clean, clean the house" /\ Len(ret) > 0

\* the first position of keys that holds k
FirstKey(keys, k) == CHOOSE i \in 1..Len(keys) : keys[i] = k /\ \A j \in 1..(i - 1) : keys[j] # k

\* C4: no two candidates returned by parseInput have titles that are equal
\* ignoring case, and each candidate carries the title, category and priority
\* of the first segment, in input order, that cleans to its title (ignoring
\* case).
C4_NoDuplicates ==
    pc = "parseInput" =>
        /\ \A a, b \in 1..Len(ret) :
               toLowerCase(ret[a].title) = toLowerCase(ret[b].title) => a = b
        /\ LET segs == Segments(text)
               keys == [i \in 1..Len(segs) |-> toLowerCase(cleanTaskText(segs[i]))]
           IN \A a \in 1..Len(ret) :
                  /\ \E i \in 1..Len(segs) : keys[i] = toLowerCase(ret[a].title)
                  /\ LET seg == segs[FirstKey(keys, toLowerCase(ret[a].title))]
                     IN /\ ret[a].title = cleanTaskText(seg)
                        /\ ret[a].category = DailyPrompt_detectCategory(seg)
                        /\ ret[a].priority = DailyPrompt_detectPriority(seg)

\* "must clean; CLEAN and clean, " gave the single candidate of its first
\* segment, with the priority high of "must clean"
C4_Witness ==
    /\ pc = "parseInput"
    /\ words = <<"must clean; ", "CLEAN and ", "clean, ">>
    /\ ret = <<[title |-> "Clean", category |-> "personal", priority |-> "high", selected |-> TRUE]>>

-----------------------------------------------------------------------------
(* parseInput applied to a text of short segments                          *)

MaxSegmentWords == 3

\* "ok" is too short before cleaning, "Must go" cleans to "Go"
SegmentWords ==
    {"maybe run.\n", "clean, ", "Must go; ", "ok, ", "CLEAN and ", "to the gym then "}

InitSegmentList ==
    /\ words \in WordSeqs(SegmentWords, MaxSegmentWords)
    /\ text = Join(words)
    /\ chrono = None
    /\ pc = "call"
    /\ ret = None
    /\ NoPattern
    /\ NoSession

SpecSegmentList == InitSegmentList /\ [][NextParseInput]_vars

\* C12: parseInput returns its candidates in the order in which their source
\* segments occur in the input: of two candidates, the earlier one comes from
\* the earlier segment; and every candidate has selected = TRUE.
C12_SegmentOrder ==
    pc = "parseInput" =>
        LET segs == Segments(text)
            keys == [i \in 1..Len(segs) |-> toLowerCase(cleanTaskText(segs[i]))]
            from == [a \in 1..Len(ret) |-> FirstKey(keys, toLowerCase(ret[a].title))]
        IN /\ \A a \in 1..Len(ret) : ret[a].selected = TRUE
           /\ \A a \in 1..Len(ret) : \E i \in 1..Len(segs) : keys[i] = toLowerCase(ret[a].title)
           /\ \A a, b \in 1..Len(ret) : a < b => from[a] < from[b]

\* "maybe run.\nclean, Must go; " gave "Maybe run" and then "Clean"
C12_Witness ==
    /\ pc = "parseInput"
    /\ words = <<"maybe run.\n", "clean, ", "Must go; ">>
    /\ Len(ret) = 2
    /\ ret[1].title = "Maybe run"
    /\ ret[2].title = "Clean"

\* C13: every candidate returned by parseInput has a title of at least 3
\* characters: the segments kept after trimming are longer than 2 characters,
\* and a segment whose cleaned text is shorter than 3 characters gives no
\* candidate.
C13_MinTitleLength ==
    pc = "parseInput" =>
        LET segs    == Segments(text)
            cleaned == [i \in 1..Len(segs) |-> cleanTaskText(segs[i])]
        IN /\ \A a \in 1..Len(ret) : Len(ret[a].title) >= 3
           /\ \A i \in 1..Len(segs) : Len(segs[i]) > 2
           /\ \A i \in 1..Len(segs) :
                  Len(cleaned[i]) < 3 => \A a \in 1..Len(ret) : ret[a].title # cleaned[i]

\* "ok, clean, Must go; ": "ok" is dropped before cleaning, "Must go" cleans to
\* "Go" and is dropped after it
C13_Witness ==
    /\ pc = "parseInput"
    /\ words = <<"ok, ", "clean, ", "Must go; ">>
    /\ Len(ret) = 1
    /\ ret[1].title = "Clean"

-----------------------------------------------------------------------------
(* detectCategory of the segmenter applied to a text                       *)

MaxSegCategoryWords == 3

\* each word with the groups whose pattern matches inside it as whole words;
\* "working " and "meditate " hold a keyword only as a part of a longer word
SegCategoryWords == <<
    <<"Work ", {"work"}>>,
    <<"working ", {}>>,
    <<"gym, ", {"health"}>>,
    <<"meditate ", {}>>,
    <<"pay ", {"finance"}>>,
    <<"Party ", {"social"}>>,
    <<"study ", {"learning"}>>,
    <<"read ", {}>>,
    <<"book ", {}>>,
    <<"a ", {}>>,
    <<"flight ", {}>> >>

InitSegCategory ==
    /\ words \in WordSeqs(Vocabulary(SegCategoryWords), MaxSegCategoryWords)
    /\ text = Join(words)
    /\ chrono = None
    /\ pc = "call"
    /\ ret = None
    /\ NoPattern
    /\ NoSession

SegDetectCategory ==
    /\ pc = "call"
    /\ ret' = DailyPrompt_detectCategory(text)
    /\ pc' = "DailyPrompt_detectCategory"
    /\ UNCHANGED <<args, shared>>

NextSegCategory == SegDetectCategory

SpecSegCategory == InitSegCategory /\ [][NextSegCategory]_vars

\* word `first`, then optionally "a ", then word `second`
Phrase(ws, first, second) ==
    \E i \in 1..Len(ws) :
        /\ ws[i] = first
        /\ \/ i + 1 <= Len(ws) /\ ws[i + 1] = second
           \/ i + 2 <= Len(ws) /\ ws[i + 1] = "a " /\ ws[i + 2] = second

\* the groups whose pattern matches somewhere in the words
SegGroupsIn(ws) ==
    UNION {TagOf(SegCategoryWords, ws[i]) : i \in 1..Len(ws)}
    \cup (IF Phrase(ws, "read ", "book ") THEN {"learning"} ELSE {})

\* the groups in the order of precedence, learning left out for a booking action
SegCandidates(ws) ==
    SelectSeq(<<"work", "health", "finance", "social", "learning">>,
              LAMBDA c : c \in SegGroupsIn(ws)
                         /\ ~(c = "learning" /\ Phrase(ws, "book ", "flight ")))

\* C11: the segmenter's detectCategory always returns a category: the first
\* group in the order work, health, finance, social, learning whose
\* word-boundary pattern matches, learning being skipped when the text holds a
\* booking action, and personal when no group is left.
C11_SegCategory ==
    pc = "DailyPrompt_detectCategory" =>
        ret = IF SegCandidates(words) = <<>> THEN "personal" ELSE Head(SegCandidates(words))

\* "book flight study " holds a learning word and a booking action: personal
C11_Witness ==
    /\ pc = "DailyPrompt_detectCategory"
    /\ words = <<"book ", "flight ", "study ">>
    /\ ret = "personal"

-----------------------------------------------------------------------------
(* formatRecurrence applied to the RecurrencePattern of a task             *)

\* the longest list of weekdays of a pattern
MaxDays == 2

\* type: the three types of RecurrencePattern and one that is none of them
PatternTypes == {"daily", "weekly", "monthly", "yearly"}

PatternIntervals == {0, 1, 2, 3, 12}

\* lists of weekday indices 0..6 of at most n days
DayLists(n) == UNION {[1..k -> 0..6] : k \in 0..n}

InitFormat ==
    /\ words = <<>>
    /\ text = ""
    /\ chrono = None
    /\ \E type \in PatternTypes,
          interval \in {None} \cup {Some(n) : n \in PatternIntervals},
          days \in {None} \cup {Some(d) : d \in DayLists(MaxDays)} :
           stored = Some([type |-> type, interval |-> interval, days |-> days])
    /\ due = None
    /\ pc = "call"
    /\ ret = None
    /\ NoSession

FormatRecurrence ==
    /\ pc = "call"
    /\ ret' = formatRecurrence(stored[1])
    /\ pc' = "formatRecurrence"
    /\ UNCHANGED <<args, shared>>

NextFormat == FormatRecurrence

SpecFormat == InitFormat /\ [][NextFormat]_vars

\* the pattern names no weekday
NoWeekdays(r) == r.days = None \/ r.days = Some(<<>>)

\* the summaries as the specification words them
IntervalText(n) ==
    CASE n = 0 -> "0" [] n = 1 -> "1" [] n = 2 -> "2" [] n = 3 -> "3" [] n = 12 -> "12"

UnitSummary(type) ==
    CASE type = "daily" -> "Daily" [] type = "weekly" -> "Weekly" [] type = "monthly" -> "Monthly"

UnitPlural(type) ==
    CASE type = "daily" -> "days" [] type = "weekly" -> "weeks" [] type = "monthly" -> "months"

DayLabel == <<"Sun", "Mon", "Tue", "Wed", "Thu", "Fri", "Sat">>

\* C14: for a pattern without weekdays whose interval is given,
\* formatRecurrence gives "Daily" / "Weekly" / "Monthly" for interval 1,
\* "Every N days" / "Every N weeks" / "Every N months" for an interval N other
\* than 1, and the empty string for a type that is none of daily, weekly,
\* monthly.
C14_FormatByType ==
    (pc = "formatRecurrence" /\ NoWeekdays(stored[1]) /\ stored[1].interval # None) =>
        LET type == stored[1].type
            n    == stored[1].interval[1]
        IN ret = IF type \notin {"daily", "weekly", "monthly"} THEN ""
                 ELSE IF n = 1 THEN UnitSummary(type)
                 ELSE "Every " \o IntervalText(n) \o " " \o UnitPlural(type)

\* {type: weekly, interval: 12} gave "Every 12 weeks"
C14_Witness ==
    /\ pc = "formatRecurrence"
    /\ stored = Some([type |-> "weekly", interval |-> Some(12), days |-> None])
    /\ ret = "Every 12 weeks"

\* C15: for every pattern whose days list is present and non-empty,
\* formatRecurrence gives "Every " and the three-letter names of the days
\* (Sun, Mon, ...) joined by ", ", whatever the interval is.
C15_DaysFirst ==
    (pc = "formatRecurrence" /\ ~NoWeekdays(stored[1])) =>
        LET days == stored[1].days[1]
        IN ret = "Every " \o DayLabel[days[1] + 1]
                 \o (IF Len(days) > 1 THEN ", " \o DayLabel[days[2] + 1] ELSE "")

\* C16: a pattern without interval (and without weekdays) is rendered as one
\* with interval 1: "Daily", "Weekly", "Monthly".
C16_DefaultInterval ==
    (/\ pc = "formatRecurrence"
     /\ NoWeekdays(stored[1])
     /\ stored[1].interval = None
     /\ stored[1].type \in {"daily", "weekly", "monthly"}) =>
        ret = UnitSummary(stored[1].type)

-----------------------------------------------------------------------------
(* detectPriority of the segmenter applied to a text                       *)

MaxSegPriorityWords == 3

\* each word with the levels of the single-task priorityKeywords table that
\* have a keyword in it as a whole word; "later " is a trigger of the
\* segmenter only and is tagged other
SegPriorityWords == <<
    <<"urgent ", {"high"}>>,
    <<"immediately ", {"high"}>>,
    <<"priority ", {"high"}>>,
    <<"Must ", {"high"}>>,
    <<"maybe ", {"low"}>>,
    <<"could ", {"low"}>>,
    <<"later ", {"other"}>>,
    <<"call bob ", {}>> >>

InitSegPriority ==
    /\ words \in WordSeqs(Vocabulary(SegPriorityWords), MaxSegPriorityWords)
    /\ text = Join(words)
    /\ chrono = None
    /\ pc = "call"
    /\ ret = None
    /\ NoPattern
    /\ NoSession

SegDetectPriority ==
    /\ pc = "call"
    /\ ret' = DailyPrompt_detectPriority(text)
    /\ pc' = "DailyPrompt_detectPriority"
    /\ UNCHANGED <<args, shared>>

NextSegPriority == SegDetectPriority

SpecSegPriority == InitSegPriority /\ [][NextSegPriority]_vars

SegTriggersIn(ws) == UNION {TagOf(SegPriorityWords, ws[i]) : i \in 1..Len(ws)}

\* C18: every high keyword of the single-task table, as a whole word, makes
\* the segmenter's detectPriority return high; a low keyword of that table
\* with no high trigger makes it return low; with no trigger at all it
\* returns medium.
C18_Superset ==
    pc = "DailyPrompt_detectPriority" =>
        /\ "high" \in SegTriggersIn(words) => ret = "high"
        /\ ("low" \in SegTriggersIn(words) /\ "high" \notin SegTriggersIn(words)) => ret = "low"
        /\ SegTriggersIn(words) = {} => ret = "medium"

-----------------------------------------------------------------------------
(* detectTimeframe as parseNaturalLanguage calls it                        *)

MaxTimeframeWords == 3

\* "Mondays" holds "every <weekday>" followed by a letter
TimeframeWords ==
    {"every ", "day", "week", "month", " daily", " weekly", " monthly", "Monday", "Mondays"}

\* due dates, in hours from now, on both sides of 1, 7 and 30 days, and one in
\* the past
DueHours == {-30, 24, 25, 168, 169, 720, 721}

InitTimeframe ==
    /\ words \in WordSeqs(TimeframeWords, MaxTimeframeWords)
    /\ text = Join(words)
    /\ chrono = None
    /\ stored = None
    /\ due \in {None} \cup {Some(h) : h \in DueHours}
    /\ pc = "call"
    /\ ret = None
    /\ NoSession

\* const timeframe = detectTimeframe(input, !!recurrence, dueDate)
DetectTimeframe ==
    /\ pc = "call"
    /\ ret' = detectTimeframe(text, detectRecurrence(text) # None, due)
    /\ pc' = "detectTimeframe"
    /\ UNCHANGED <<args, shared>>

NextTimeframe == DetectTimeframe

SpecTimeframe == InitTimeframe /\ [][NextTimeframe]_vars

\* words i..j follow the word before them with no space in between
OneRun(ws, i, j) == \A k \in i..j : ws[k] \in {"day", "week", "month", "Monday", "Mondays"}

\* "every " is followed by a word that has "day" after its first letter: the
\* word starts at the word after "every " (the spaces in between are skipped)
\* and runs on through the words that follow it with no space
EveryWordWithDay(ws) ==
    \E i \in 1..Len(ws) : \E j \in (i + 1)..Len(ws) :
        /\ ws[i] = "every "
        /\ j > i + 1 => ws[i + 1] # "every "
        /\ OneRun(ws, i + 2, j)
        /\ ws[j] \in {"Monday", "Mondays"} \/ (ws[j] = "day" /\ j > i + 1)

TextDaily(ws)   == HasWord(ws, {" daily"}) \/ EveryThen(ws, {"day"})
TextWeekly(ws)  == HasWord(ws, {" weekly"}) \/ EveryThen(ws, {"week"}) \/ EveryWordWithDay(ws)
TextMonthly(ws) == HasWord(ws, {" monthly"}) \/ EveryThen(ws, {"month"})

\* the words hold one of the phrases detectRecurrence knows
HasRecurrence(ws) == TextDaily(ws) \/ TextWeekly(ws) \/ TextMonthly(ws)

\* C19: when a recurrence was detected, the timeframe is daily for a text
\* with "daily" or "every day", whatever else it holds; otherwise weekly for
\* "weekly", "every week" or "every <word ending in day>"; otherwise monthly for
\* "monthly" or "every month".  Each phrase is looked for as a part of the
\* text, so "every Mondays" holds "every Monday".
C19_RecurrenceTimeframe ==
    (pc = "detectTimeframe" /\ HasRecurrence(words)) =>
        ret = IF TextDaily(words) THEN "daily"
              ELSE IF TextWeekly(words) THEN "weekly"
              ELSE "monthly"

\* "every Monday daily monthly" gave daily
C19_Witness ==
    /\ pc = "detectTimeframe"
    /\ words = <<"every ", "Monday", " daily">>
    /\ due = Some(721)
    /\ ret = "daily"

\* the number of days to a date h hours away, rounded up
DaysUntil(h) == CHOOSE d \in -3..40 : 24 * (d - 1) < h /\ h <= 24 * d

\* C20: when no recurrence was detected, the timeframe depends on the due
\* date only: with d the days from now to the due date rounded up, daily for
\* d <= 1 (a date in the past included), weekly for 1 < d <= 7, monthly for
\* 7 < d <= 30, once for d > 30 and without a due date.
C20_DueDateTimeframe ==
    (pc = "detectTimeframe" /\ ~HasRecurrence(words)) =>
        ret = IF due = None THEN "once"
              ELSE IF DaysUntil(due[1]) <= 1 THEN "daily"
              ELSE IF DaysUntil(due[1]) <= 7 THEN "weekly"
              ELSE IF DaysUntil(due[1]) <= 30 THEN "monthly"
              ELSE "once"

\* a due date 25 hours away, 2 days rounded up, gave weekly
C20_Witness ==
    /\ pc = "detectTimeframe"
    /\ words = <<"week", "Monday">>
    /\ due = Some(25)
    /\ ret = "weekly"

-----------------------------------------------------------------------------
(* A session: calls of parseNaturalLanguage and parseInput, one after the  *)
(* other, on the module's tables; the current instant is held fixed        *)

\* the number of calls of a session
MaxCalls == 3

SessionTexts ==
    {"daily standup", "every 3 days gym today", "every Monday, urgent",
     "pay rent, Pay rent and clean"}

\* chrono.parse(input) at the fixed instant: a function of the text
chronoParse(t) ==
    IF includes(toLowerCase(t), "today")
    THEN Some([date |-> 12, hour |-> None, minute |-> 0])
    ELSE None

InitSession ==
    /\ words = <<>>
    /\ text = ""
    /\ chrono = None
    /\ pc = "idle"
    /\ ret = None
    /\ NoPattern
    /\ NoSession

\* function fn was called on t and returned r.ret, leaving r.lastIndex
Called(fn, t, r) ==
    /\ words' = <<t>>
    /\ text' = t
    /\ chrono' = chronoParse(t)
    /\ pc' = fn
    /\ ret' = r.ret
    /\ lastIndex' = r.lastIndex
    /\ log' = Append(log, [fn |-> fn, text |-> t, result |-> r.ret])
    /\ UNCHANGED <<stored, due, taskForm, useTasks, dailyTracker, taskItem, shoppingList>>

CallParseNaturalLanguage ==
    /\ Len(log) < MaxCalls
    /\ \E t \in SessionTexts :
           Called("parseNaturalLanguage", t, parseNaturalLanguageOn(t, chronoParse(t), lastIndex))

\* the RegExp literals of DailyPrompt.tsx are inside the functions: every
\* call makes its own objects
CallParseInput ==
    /\ Len(log) < MaxCalls
    /\ \E t \in SessionTexts :
           Called("parseInput", t, [ret |-> parseInput(t), lastIndex |-> lastIndex])

NextSession == CallParseNaturalLanguage \/ CallParseInput

SpecSession == InitSession /\ [][NextSession]_vars

\* C17: two calls of the same parser on the same text return equal results,
\* whatever was called in between, and no call changes the state the calls
\* share: the RegExp objects of recurrencePatterns keep lastIndex 0.
C17_Deterministic ==
    /\ \A i, j \in 1..Len(log) :
           (log[i].fn = log[j].fn /\ log[i].text = log[j].text) => log[i].result = log[j].result
    /\ lastIndex = ZeroIndex

\* "daily standup" was parsed, then another text, then "daily standup" again
C17_Witness ==
    /\ Len(log) = 3
    /\ log[1].fn = "parseNaturalLanguage" /\ log[1].text = "daily standup"
    /\ log[2].text = "every 3 days gym today"
    /\ log[3].fn = "parseNaturalLanguage" /\ log[3].text = "daily standup"
    /\ log[3].result.recurrence = Some([type |-> "daily", interval |-> 1])

-----------------------------------------------------------------------------
(* parseInput applied to texts with and without delimiters                 *)

MaxSplitWords == 3

\* "strengthen " and "Athens " hold the letters "then" inside a longer word;
\* "and " at the start of the text has no white space before it
SplitWords == {"strengthen ", "core ", "then ", "and ", "run, ", "Athens "}

InitSplit ==
    /\ words \in WordSeqs(SplitWords, MaxSplitWords)
    /\ text = Join(words)
    /\ chrono = None
    /\ pc = "call"
    /\ ret = None
    /\ NoPattern
    /\ NoSession

SpecSplit == InitSplit /\ [][NextParseInput]_vars

\* a listed delimiter, word by word: a comma, the word "then" followed by
\* white space, or " and " between two words
ListedDelimiterIn(ws) ==
    \E i \in 1..Len(ws) :
        \/ ws[i] \in {"run, ", "then "}
        \/ ws[i] = "and " /\ i > 1

\* C21: as the specification states it, an input that holds none of the listed
\* delimiters (a comma, a standalone " and ", a period followed by white space,
\* a newline, a semicolon, the word "then" followed by white space) is never
\* split and gives at most one candidate, also when the letters "then" occur
\* inside a longer word.
C21_OnlyListedDelimiters ==
    (pc = "parseInput" /\ ~ListedDelimiterIn(words)) => Len(ret) <= 1

-----------------------------------------------------------------------------
(* parseInput applied to segments that begin with a filler                 *)

MaxClassifyWords == 3

\* each word is one segment with its delimiter
ClassifyWords ==
    {"must call mom, ", "call mom then ", "should pay rent; ", "gonna study maybe.\n",
     "i must go, ", "Will work and "}

InitClassify ==
    /\ words \in WordSeqs(ClassifyWords, MaxClassifyWords)
    /\ text = Join(words)
    /\ chrono = None
    /\ pc = "call"
    /\ ret = None
    /\ NoPattern
    /\ NoSession

SpecClassify == InitClassify /\ [][NextParseInput]_vars

Candidate(title, category, priority) ==
    [title |-> title, category |-> category, priority |-> priority, selected |-> TRUE]

\* the candidate a segment stands for, read off the segment as typed: the
\* leading filler is not part of the title but counts for the priority
CandidateOf(w) ==
    CASE w = "must call mom, "       -> Some(Candidate("Call mom", "social", "high"))
      [] w = "call mom then "        -> Some(Candidate("Call mom", "social", "medium"))
      [] w = "should pay rent; "     -> Some(Candidate("Pay rent", "finance", "medium"))
      [] w = "gonna study maybe.\n"  -> Some(Candidate("Study maybe", "learning", "low"))
      [] w = "Will work and "        -> Some(Candidate("Work", "work", "medium"))
      [] OTHER                       -> None

RECURSIVE CandidatesOf(_, _, _)
CandidatesOf(ws, i, out) ==
    IF i > Len(ws) THEN out
    ELSE LET c == CandidateOf(ws[i])
         IN IF c = None \/ \E a \in 1..Len(out) : out[a].title = c[1].title
            THEN CandidatesOf(ws, i + 1, out)
            ELSE CandidatesOf(ws, i + 1, Append(out, c[1]))

\* C22: in parseInput the category and the priority of a candidate come from
\* the trimmed segment as typed, not from the cleaned title (a leading filler
\* that cleanTaskText removes still counts: "must call mom" gives the title
\* "Call mom" with priority high), and the title of a candidate is exactly
\* cleanTaskText of its segment.
C22_ClassifyUncleaned ==
    pc = "parseInput" =>
        /\ ret = CandidatesOf(words, 1, <<>>)
        /\ \A a \in 1..Len(ret) :
               \E i \in 1..Len(Segments(text)) :
                   ret[a].title = cleanTaskText(Segments(text)[i])

\* "must call mom, i must go, should pay rent; ": the first candidate is
\* "Call mom" with priority high, though its title alone would give medium
C22_Witness ==
    /\ pc = "parseInput"
    /\ words = <<"must call mom, ", "i must go, ", "should pay rent; ">>
    /\ Len(ret) = 2
    /\ ret[1].title = "Call mom"
    /\ ret[1].priority = "high"
    /\ DailyPrompt_detectPriority(ret[1].title) = "medium"

-----------------------------------------------------------------------------
(* parseNaturalLanguage applied to texts with a recurrence                 *)

MaxAgreeWords == 3

AgreeWords == {"every ", "3 ", "days", "Monday", " daily", "gym ", " weekly"}

\* no date phrase in these texts: chrono.parse finds nothing
InitAgree ==
    /\ words \in WordSeqs(AgreeWords, MaxAgreeWords) \ {<<>>}
    /\ text = Join(words)
    /\ chrono = None
    /\ pc = "call"
    /\ ret = None
    /\ NoPattern
    /\ NoSession

SpecAgree == InitAgree /\ [][NextParse]_vars

\* C24: as the claim states it, whenever parseNaturalLanguage returns a
\* recurrence, the timeframe it returns equals the type of that recurrence
\* and is never "once".
C24_TimeframeAgrees ==
    (pc = "parseNaturalLanguage" /\ ret.recurrence # None) =>
        /\ ret.timeframe = ret.recurrence[1].type
        /\ ret.timeframe # "once"

-----------------------------------------------------------------------------
(* The task form: TaskForm of src/unnamed/part_002                         *)

MaxFormEvents == 4

\* what the user can bring the text field to; "gym" is too short to be
\* parsed, "ship it" holds no keyword at all
FormTexts == {"urgent call", " call", "gym maybe", "ship it", "gym", ""}

\* parseNaturalLanguage on each of these texts
FormParse == [t \in FormTexts |-> parseNaturalLanguage(t, chronoParse(t))]

\* a plausible slip: the category falls back to personal when none is found
AutoUpdate_defaultCategory(f, result) ==
    [f EXCEPT !.parsed = Some(result),
              !.category = IF result.category # None THEN result.category[1] ELSE "personal",
              !.priority = IF result.priority # "medium" THEN result.priority ELSE @,
              !.timeframe = IF result.timeframe # "once" THEN result.timeframe ELSE @]

\* the fields of the form taken over from a parse result
AutoUpdate(f, result) ==
    [f EXCEPT !.parsed = Some(result),
              !.category = IF result.category # None THEN result.category[1] ELSE @,
              !.priority = IF result.priority # "medium" THEN result.priority ELSE @,
              !.timeframe = IF result.timeframe # "once" THEN result.timeframe ELSE @]

\* the effect that runs after a render in which input has changed
InputEffect(f) ==
    IF Len(f.input) > 3
    THEN AutoUpdate(f, FormParse[f.input])
    ELSE [f EXCEPT !.parsed = None]

\* the form as mounted with a default category; events counts the user's
\* actions, touched tells whether an advanced option was ever set by hand
InitForm ==
    /\ NoCall
    /\ \E defaultCategory \in {"personal", "work"} :
           taskForm = InputEffect([input |-> "", showAdvanced |-> FALSE,
                                   category |-> defaultCategory, priority |-> "medium",
                                   timeframe |-> "daily", dueDate |-> "", dueTime |-> "",
                                   parsed |-> None, submitted |-> None,
                                   events |-> 0, touched |-> FALSE])
    /\ useTasks = None
    /\ dailyTracker = None
    /\ taskItem = None
    /\ shoppingList = None

FormEvent(f) ==
    /\ taskForm.events < MaxFormEvents
    /\ taskForm' = [f EXCEPT !.events = @ + 1]
    /\ UNCHANGED <<calls, useTasks, dailyTracker, taskItem, shoppingList>>

\* onChange of the text field, or a transcript from the voice input
ChangeInput ==
    \E t \in FormTexts \ {taskForm.input} :
        FormEvent(InputEffect([taskForm EXCEPT !.input = t]))

ToggleAdvanced ==
    \E show \in {~taskForm.showAdvanced} :
        FormEvent([taskForm EXCEPT !.showAdvanced = show])

SelectCategory ==
    /\ taskForm.showAdvanced
    /\ \E c \in {"work", "finance"} :
           FormEvent([taskForm EXCEPT !.category = c, !.touched = TRUE])

SelectPriority ==
    /\ taskForm.showAdvanced
    /\ \E p \in {"low", "medium", "high"} :
           FormEvent([taskForm EXCEPT !.priority = p, !.touched = TRUE])

SelectTimeframe ==
    /\ taskForm.showAdvanced
    /\ \E tf \in {"weekly", "once"} :
           FormEvent([taskForm EXCEPT !.timeframe = tf, !.touched = TRUE])

SetDueDate ==
    /\ taskForm.showAdvanced
    /\ FormEvent([taskForm EXCEPT !.dueDate = "2026-11-02", !.touched = TRUE])

SetDueTime ==
    /\ taskForm.showAdvanced
    /\ FormEvent([taskForm EXCEPT !.dueTime = "09:00", !.touched = TRUE])

\* the task handed to onSubmit; text is the input it was made from
SubmittedTask(f, parsedTask) ==
    [title     |-> IF parsedTask.title # "" THEN parsedTask.title ELSE trim(f.input),
     category  |-> f.category,
     completed |-> FALSE,
     dueDate   |-> IF f.dueDate # "" THEN <<"form", f.dueDate>>
                   ELSE IF parsedTask.dueDate # None THEN <<"parsed", parsedTask.dueDate[1]>>
                   ELSE <<"today">>,
     dueTime   |-> IF f.dueTime # "" THEN Some(f.dueTime) ELSE parsedTask.dueTime,
     timeframe |-> f.timeframe,
     recurrence |-> parsedTask.recurrence,
     priority  |-> f.priority,
     text      |-> f.input,
     touched   |-> f.touched]

\* handleSubmit with an input that is not blank, and the effect that follows
\* the reset of input
HandleSubmit ==
    /\ trim(taskForm.input) # ""
    /\ FormEvent(InputEffect([taskForm EXCEPT
           !.submitted = Some(SubmittedTask(taskForm, FormParse[taskForm.input])),
           !.input = "", !.showAdvanced = FALSE, !.priority = "medium",
           !.timeframe = "daily", !.dueDate = "", !.dueTime = ""]))

NextForm ==
    \/ ChangeInput
    \/ ToggleAdvanced
    \/ SelectCategory
    \/ SelectPriority
    \/ SelectTimeframe
    \/ SetDueDate
    \/ SetDueTime
    \/ HandleSubmit

SpecForm == InitForm /\ [][NextForm]_vars

\* C23: when detectCategory finds no keyword in the typed text, the form
\* keeps its category: after every change of input whose parse has no
\* category (or that is too short to be parsed), the category of the form is
\* what it was before the change.
C23_CategoryKept ==
    [][(/\ taskForm'.input # taskForm.input
        /\ (Len(taskForm'.input) > 3 => FormParse[taskForm'.input].category = None))
       => taskForm'.category = taskForm.category]_vars

\* "ship it" is in the field and parsed without a category, while the form
\* still has the category social that an earlier text gave it
C23_Witness ==
    /\ taskForm.input = "ship it"
    /\ taskForm.parsed # None
    /\ taskForm.parsed[1].category = None
    /\ taskForm.category = "social"
    /\ ~taskForm.touched

\* C25: as the claim states it, when the user only edits the text field, the
\* priority submitted with the task is the priority the parser finds in the
\* text as it is at submit time.
C25_SubmittedPriority ==
    (taskForm.submitted # None /\ ~taskForm.submitted[1].touched) =>
        taskForm.submitted[1].priority = detectPriority(taskForm.submitted[1].text)

-----------------------------------------------------------------------------
(* The task list: the useTasks hook of src/unnamed/part_001 and the        *)
(* Firestore subscription of src/src/services/nlp.ts                       *)

MaxHookCalls == 3

\* the ids handed to the hook; "x" is the id of no task
TaskIds == {"a", "b", "x"}

\* the id lists handed to reorderTasks: unknown and repeated ids included
IdLists == UNION {[1..k -> TaskIds] : k \in 0..2}

IndexOfTask(list, taskId) ==
    IF \E i \in 1..Len(list) : list[i].id = taskId
    THEN Some(CHOOSE i \in 1..Len(list) : list[i].id = taskId /\ \A j \in 1..(i - 1) : list[j].id # taskId)
    ELSE None

\* prev.map(t => t.id === taskId ? { ...t, ...updatedData } : t)
MergeUpdate(list, taskId, updatedData) ==
    [i \in 1..Len(list) |->
        IF list[i].id = taskId
        THEN [list[i] EXCEPT !.completed = updatedData.completed,
                             !.updatedAt = updatedData.updatedAt]
        ELSE list[i]]

\* taskIds.map(id => taskMap.get(id)!).filter(Boolean)
Reordered(prev, taskIds) ==
    LET known == SelectSeq(taskIds, LAMBDA id : IndexOfTask(prev, id) # None)
    IN [i \in 1..Len(known) |-> prev[IndexOfTask(prev, known[i])[1]]]

\* prev.filter(t => !taskIds.includes(t.id))
Remaining(prev, taskIds) ==
    SelectSeq(prev, LAMBDA t : \A i \in 1..Len(taskIds) : taskIds[i] # t.id)

\* The hook after its first effect has loaded the tasks of the user "a" and
\* "b": from the local storage, or from the first snapshot. rendered is the
\* task list of the last render, the one the callbacks of the hook see;
\* calls, toggled, original and reorder record what was called.
InitTasks ==
    /\ NoCall
    /\ taskForm = None
    /\ \E isFirebaseConfigured \in BOOLEAN, ca, cb \in BOOLEAN :
           LET loaded == <<[id |-> "a", completed |-> ca, updatedAt |-> 0],
                           [id |-> "b", completed |-> cb, updatedAt |-> 0]>>
           IN useTasks = [isFirebaseConfigured |-> isFirebaseConfigured,
                          tasks |-> loaded, loading |-> FALSE, rendered |-> loaded,
                          pending |-> <<>>,
                          store |-> IF isFirebaseConfigured THEN loaded ELSE <<>>,
                          localStorage |-> IF isFirebaseConfigured THEN <<>> ELSE loaded,
                          calls |-> 0,
                          toggled |-> [id \in {"a", "b"} |-> 0],
                          original |-> loaded,
                          reorder |-> None]
    /\ dailyTracker = None
    /\ taskItem = None
    /\ shoppingList = None

HookStep(h) ==
    /\ useTasks' = h
    /\ UNCHANGED <<calls, taskForm, dailyTracker, taskItem, shoppingList>>

\* updateTask(taskId, updates), called at the time useTasks.calls + 1
UpdateTask(h, taskId, completed) ==
    LET updatedData == [completed |-> completed, updatedAt |-> h.calls + 1]
        updated     == MergeUpdate(h.tasks, taskId, updatedData)
    IN IF h.isFirebaseConfigured
       THEN [h EXCEPT !.pending = Append(@, [taskId |-> taskId, updateData |-> updatedData])]
       ELSE [h EXCEPT !.tasks = updated, !.localStorage = updated]

\* toggleTask(taskId) as made by the last render: it looks the task up in the
\* tasks of that render
ToggleTask ==
    /\ useTasks.calls < MaxHookCalls
    /\ \E taskId \in TaskIds :
           LET found == IndexOfTask(useTasks.rendered, taskId)
               h     == [useTasks EXCEPT !.calls = @ + 1]
           IN IF found = None
              THEN HookStep(h)
              ELSE HookStep([UpdateTask(h, taskId, ~useTasks.rendered[found[1]].completed)
                                EXCEPT !.toggled[taskId] = @ + 1])

\* reorderTasks(taskIds): an update of the state as it is when React applies it
ReorderTasks ==
    /\ useTasks.calls < MaxHookCalls
    /\ \E taskIds \in IdLists :
           LET prev    == useTasks.tasks
               updated == Reordered(prev, taskIds) \o Remaining(prev, taskIds)
           IN HookStep([useTasks EXCEPT
                  !.calls = @ + 1,
                  !.tasks = updated,
                  !.localStorage = IF useTasks.isFirebaseConfigured THEN @ ELSE updated,
                  !.reorder = Some([prev |-> prev, taskIds |-> taskIds, updated |-> updated])])

\* React renders the hook again after a change of its state
Render ==
    /\ useTasks.rendered # useTasks.tasks
    /\ HookStep([useTasks EXCEPT !.rendered = useTasks.tasks])

\* updateDoc(taskRef, updateData) of the oldest call in flight takes effect
UpdateDoc ==
    /\ useTasks.pending # <<>>
    /\ LET w == Head(useTasks.pending)
       IN HookStep([useTasks EXCEPT
              !.pending = Tail(@),
              !.store = MergeUpdate(@, w.taskId, w.updateData)])

\* the onSnapshot callback hands the documents to setTasks
OnSnapshot ==
    /\ useTasks.isFirebaseConfigured
    /\ useTasks.tasks # useTasks.store
    /\ HookStep([useTasks EXCEPT !.tasks = useTasks.store, !.loading = FALSE])

NextTasks ==
    \/ ToggleTask
    \/ ReorderTasks
    \/ Render
    \/ UpdateDoc
    \/ OnSnapshot

SpecTasks == InitTasks /\ [][NextTasks]_vars

\* the stored task list: the documents in Firebase mode, the state otherwise
StoredTasks == IF useTasks.isFirebaseConfigured THEN useTasks.store ELSE useTasks.tasks

CompletedOf(list, taskId) == list[IndexOfTask(list, taskId)[1]].completed

\* C26: as the claim states it, each toggleTask call inverts the stored
\* completed flag: once two toggleTask calls on the same task have taken
\* effect, the flag is back to its original value, whatever the interleaving
\* with renders and snapshot callbacks.
C26_ToggleTwice ==
    \A taskId \in {"a", "b"} :
        (useTasks.toggled[taskId] = 2 /\ useTasks.pending = <<>>) =>
            CompletedOf(StoredTasks, taskId) = CompletedOf(useTasks.original, taskId)

IdsOf(list) == [i \in 1..Len(list) |-> list[i].id]

\* C27: as the claim states it, reorderTasks(taskIds) only permutes the list:
\* the result holds every task of the list exactly once, the tasks named in
\* taskIds first, in the given order, and the others after them in their
\* previous order, for every id list, unknown and repeated ids included.
C27_ReorderPermutes ==
    useTasks.reorder # None =>
        LET r     == useTasks.reorder[1]
            named == SelectSeq(IdsOf(r.updated),
                               LAMBDA id : \E i \in 1..Len(r.taskIds) : r.taskIds[i] = id)
            rest  == SelectSeq(IdsOf(r.updated),
                               LAMBDA id : \A i \in 1..Len(r.taskIds) : r.taskIds[i] # id)
        IN /\ Len(r.updated) = Len(r.prev)
           /\ \A t \in Range(r.prev) : Cardinality({i \in 1..Len(r.updated) : r.updated[i] = t}) = 1
           /\ IdsOf(r.updated) = named \o rest
           /\ named = SelectSeq(r.taskIds, LAMBDA id : IndexOfTask(r.prev, id) # None)
           /\ rest = SelectSeq(IdsOf(r.prev),
                               LAMBDA id : \A i \in 1..Len(r.taskIds) : r.taskIds[i] # id)

-----------------------------------------------------------------------------
(* The streak of DailyTracker, src/unnamed/part_003                        *)

MaxTrackerTasks == 3

\* calendar days are numbered; the component is rendered on day Today
Today == 10

\* the days on which a task was last updated: up to three days back, today,
\* and a day ahead of the clock of this device
UpdateDays == (Today - 3)..(Today + 1)

TrackerTasks == [completed : BOOLEAN, updatedAt : UpdateDays]

\* the dates of the completed tasks (toDateString gives one string per day)
CompletedDates(tasks) == {tasks[i].updatedAt : i \in {j \in 1..Len(tasks) : tasks[j].completed}}

InitTracker ==
    /\ NoCall
    /\ taskForm = None
    /\ useTasks = None
    /\ \E tasks \in UNION {[1..k -> TrackerTasks] : k \in 0..MaxTrackerTasks} :
           dailyTracker = [tasks |-> tasks, today |-> Today, pc |-> "render",
                           completedDates |-> {}, currentStreak |-> 0,
                           checkDate |-> Today, streak |-> None]
    /\ taskItem = None
    /\ shoppingList = None

TrackerStep(d) ==
    /\ dailyTracker' = d
    /\ UNCHANGED <<calls, taskForm, useTasks, taskItem, shoppingList>>

\* the start of the computation: the set of dates, the counter and the date
\* to look at first
StartStreak ==
    /\ dailyTracker.pc = "render"
    /\ TrackerStep([dailyTracker EXCEPT
           !.completedDates = CompletedDates(dailyTracker.tasks),
           !.currentStreak = 0,
           !.checkDate = dailyTracker.today,
           !.pc = "while"])

\* a plausible slip: the loop ends at a day without a completed task, today
\* included
StreakIteration_stopToday(d) ==
    IF d.checkDate \in d.completedDates
    THEN [d EXCEPT !.currentStreak = @ + 1, !.checkDate = @ - 1]
    ELSE [d EXCEPT !.pc = "done", !.streak = Some(d.currentStreak)]

\* one pass through the body of while (true); after break the counter is
\* returned
StreakIteration(d) ==
    IF d.checkDate \in d.completedDates
    THEN [d EXCEPT !.currentStreak = @ + 1, !.checkDate = @ - 1]
    ELSE IF d.checkDate = d.today
    THEN [d EXCEPT !.checkDate = @ - 1]
    ELSE [d EXCEPT !.pc = "done", !.streak = Some(d.currentStreak)]

WhileTrue ==
    /\ dailyTracker.pc = "while"
    /\ TrackerStep(StreakIteration(dailyTracker))

NextTracker == StartStreak \/ WhileTrue

\* the computation is one synchronous call: once started it runs on
SpecTracker == InitTracker /\ [][NextTracker]_vars /\ WF_vars(NextTracker)

CompletedOn(day) ==
    \E i \in 1..Len(dailyTracker.tasks) :
        dailyTracker.tasks[i].completed /\ dailyTracker.tasks[i].updatedAt = day

\* the day the count starts from
StreakStart == IF CompletedOn(Today) THEN Today ELSE Today - 1

\* the number of consecutive days with a completed task, back from StreakStart
ConsecutiveDays ==
    Cardinality({day \in UpdateDays : day <= StreakStart /\ \A e \in day..StreakStart : CompletedOn(e)})

\* C28: the streak computation terminates for every task list, and its
\* result is the number of consecutive calendar days with at least one
\* completed task (by the date of updatedAt), counted back from today if
\* today has one and from yesterday otherwise; it is 0 when neither today nor
\* yesterday has a completed task.
C28_Streak ==
    /\ <>(dailyTracker.pc = "done")
    /\ [](dailyTracker.pc = "done" =>
             /\ dailyTracker.streak = Some(ConsecutiveDays)
             /\ (~CompletedOn(Today) /\ ~CompletedOn(Today - 1)) => dailyTracker.streak = Some(0))

\* nothing completed today, but yesterday and the day before: the streak is 2
C28_Witness ==
    /\ dailyTracker.pc = "done"
    /\ ~CompletedOn(Today)
    /\ CompletedOn(Today - 1)
    /\ CompletedOn(Today - 2)
    /\ ~CompletedOn(Today - 3)
    /\ dailyTracker.streak = Some(2)

-----------------------------------------------------------------------------
(* The delete confirmation of TaskItem, src/src/components/Header.tsx      *)

MaxClicks == 3

\* time runs in seconds up to MaxTime; the confirmation is dismissed after
\* ConfirmDelay seconds
MaxTime == 6
ConfirmDelay == 3

\* A mounted item of a task. timers holds the times at which the pending
\* setTimeout callbacks are due; deleting tells that onDelete was called and
\* the task is not yet gone from the list; clicks, onDeleteCalls and openedAt
\* record what happened.
InitItem ==
    /\ NoCall
    /\ taskForm = None
    /\ useTasks = None
    /\ dailyTracker = None
    /\ \E isFirebaseConfigured \in BOOLEAN :
           taskItem = [isFirebaseConfigured |-> isFirebaseConfigured, mounted |-> TRUE,
                       showDeleteConfirm |-> FALSE, timers |-> {}, deleting |-> FALSE,
                       now |-> 0, clicks |-> 0, onDeleteCalls |-> 0, openedAt |-> 0]
    /\ shoppingList = None

ItemStep(it) ==
    /\ taskItem' = it
    /\ UNCHANGED <<calls, taskForm, useTasks, dailyTracker, shoppingList>>

\* handleDelete while the confirmation shows: onDelete() and the
\* confirmation closes. In local-storage mode deleteTask takes the task out
\* of the list at once and the item is unmounted; in Firebase mode the task
\* stays in the list until a snapshot without it arrives.
ConfirmDelete ==
    /\ taskItem.mounted
    /\ taskItem.showDeleteConfirm
    /\ taskItem.clicks < MaxClicks
    /\ ItemStep([taskItem EXCEPT
           !.clicks = @ + 1,
           !.onDeleteCalls = @ + 1,
           !.showDeleteConfirm = FALSE,
           !.deleting = taskItem.isFirebaseConfigured,
           !.mounted = taskItem.isFirebaseConfigured])

\* handleDelete while no confirmation shows: it opens, and a timer is set
OpenConfirm ==
    /\ taskItem.mounted
    /\ ~taskItem.showDeleteConfirm
    /\ taskItem.clicks < MaxClicks
    /\ ItemStep([taskItem EXCEPT
           !.clicks = @ + 1,
           !.showDeleteConfirm = TRUE,
           !.timers = @ \cup {taskItem.now + ConfirmDelay},
           !.openedAt = taskItem.now])

\* a setTimeout callback that is due runs: setShowDeleteConfirm(false), which
\* does nothing on an item that is no longer mounted
TimerFires ==
    \E t \in taskItem.timers :
        /\ t <= taskItem.now
        /\ ItemStep([taskItem EXCEPT
               !.timers = @ \ {t},
               !.showDeleteConfirm = IF taskItem.mounted THEN FALSE ELSE @])

\* a second passes; a timer that is due runs first
Tick ==
    /\ taskItem.now < MaxTime
    /\ \A t \in taskItem.timers : t > taskItem.now
    /\ ItemStep([taskItem EXCEPT !.now = @ + 1])

\* Firebase mode: the snapshot without the deleted task arrives and the item
\* is unmounted
TaskRemoved ==
    /\ taskItem.mounted
    /\ taskItem.deleting
    /\ ItemStep([taskItem EXCEPT !.mounted = FALSE, !.deleting = FALSE])

NextItem ==
    \/ ConfirmDelete
    \/ OpenConfirm
    \/ TimerFires
    \/ Tick
    \/ TaskRemoved

SpecItem == InitItem /\ [][NextItem]_vars

\* C29: as the claim states it, a click on delete while no confirmation shows
\* only opens the confirmation and never deletes, and a confirmation opened
\* by a click stays until a second click confirms it or until 3 seconds have
\* passed since the click that opened it: no timer of an earlier click
\* dismisses it before.
C29_ConfirmStays ==
    [][/\ (~taskItem.showDeleteConfirm /\ taskItem'.clicks = taskItem.clicks + 1) =>
            /\ taskItem'.showDeleteConfirm
            /\ taskItem'.onDeleteCalls = taskItem.onDeleteCalls
            /\ taskItem'.mounted
       /\ (taskItem.showDeleteConfirm /\ ~taskItem'.showDeleteConfirm) =>
            \/ taskItem'.clicks = taskItem.clicks + 1
            \/ taskItem.now >= taskItem.openedAt + ConfirmDelay]_vars

-----------------------------------------------------------------------------
(* The shopping list: ShoppingList of src/src/components/Header.tsx        *)

MaxItems == 2

\* JSON.stringify of the items: each item as the list of its values
stringify(items) ==
    [i \in 1..Len(items) |->
        <<items[i].id, items[i].name, items[i].quantity, items[i].category, items[i].checked>>]

\* JSON.parse of a stored string
parse(json) ==
    [i \in 1..Len(json) |->
        [id |-> json[i][1], name |-> json[i][2], quantity |-> json[i][3],
         category |-> json[i][4], checked |-> json[i][5]]]

\* stored is what localStorage holds under the key: None for no entry
loadShoppingList(storage) == IF storage # None THEN parse(storage[1]) ELSE <<>>

\* the patterns of autoDetectCategory, in the order in which they are tried
itemCategoryPatterns == <<
    <<"produce", <<"apple", "banana", "orange", "lettuce", "tomato", "onion", "potato", "carrot",
                   "broccoli", "spinach", "fruit", "vegetable", "salad", "herb", "garlic",
                   "lemon", "lime", "avocado", "pepper", "cucumber", "celery", "mushroom">> >>,
    <<"dairy", <<"milk", "cheese", "yogurt", "butter", "cream", "egg", "eggs">> >>,
    <<"meat", <<"chicken", "beef", "pork", "fish", "salmon", "tuna", "shrimp", "bacon",
                "sausage", "steak", "meat", "turkey", "ham">> >>,
    <<"bakery", <<"bread", "roll", "bagel", "croissant", "muffin", "cake", "pastry", "baguette",
                  "tortilla">> >>,
    <<"frozen", <<"frozen", "ice cream", "pizza", "fries">> >>,
    <<"pantry", <<"pasta", "rice", "cereal", "flour", "sugar", "oil", "sauce", "soup", "can",
                  "beans", "spice", "salt", "pepper", "vinegar", "honey", "peanut butter", "jam",
                  "coffee", "tea">> >>,
    <<"beverages", <<"juice", "soda", "water", "beer", "wine", "drink", "cola", "sprite">> >>,
    <<"household", <<"soap", "detergent", "paper towel", "toilet paper", "cleaner", "sponge",
                     "trash bag", "tissue">> >> >>

RECURSIVE FirstItemCategory(_, _)
FirstItemCategory(name, i) ==
    IF i > Len(itemCategoryPatterns) THEN "other"
    ELSE IF test(Cat(<<WordB, Lits(itemCategoryPatterns[i][2]), WordB>>), name)
         THEN itemCategoryPatterns[i][1]
         ELSE FirstItemCategory(name, i + 1)

autoDetectCategory(itemName) == FirstItemCategory(toLowerCase(itemName), 1)

\* \d+(?:\.\d+)?(?:\s*(?:kg|g|lb|oz|ml|l|x))?
quantityRe ==
    Cat(<<Plus(D_), Opt(Cat(<<Lit("."), Plus(D_)>>)),
          Opt(Cat(<<Star(S_), Lits(<<"kg", "g", "lb", "oz", "ml", "l", "x">>)>>))>>)

\* . of a regular expression
Dot == Cls(STRING \ {"\n"})

\* The first pattern of qtyMatch, quantity then name, once with the quantity
\* and once with the name as the group that is read off.
quantityFirstRe == Cat(<<Bol, Grp(quantityRe), Plus(S_), Plus(Dot), Eol>>)
nameSecondRe    == Cat(<<Bol, quantityRe, Plus(S_), Grp(Plus(Dot)), Eol>>)

\* name and quantity as addItem takes them from the trimmed input. The second
\* and the third pattern of qtyMatch need a number at the end of the text;
\* they match none of the inputs looked at here.
NameAndQuantity(name) ==
    LET lower == toLowerCase(name)
    IN IF test(quantityFirstRe, lower)
       THEN [quantity |-> Group1(name, MatchAt(quantityFirstRe, lower, 1))[1],
             name     |-> Group1(name, MatchAt(nameSecondRe, lower, 1))[1]]
       ELSE [quantity |-> "", name |-> name]

\* what the user types into the field of the new item
ItemInputs == {"milk", "2 lemons", "  "}

\* the item addItem makes of an input, with the n-th generated id
NewItem(input, selectedCategory, n) ==
    LET nq == NameAndQuantity(trim(input))
    IN [id |-> "item_" \o digits(n),
        name |-> trim(nq.name),
        quantity |-> nq.quantity,
        category |-> IF selectedCategory # None THEN selectedCategory[1]
                     ELSE autoDetectCategory(nq.name),
        checked |-> FALSE]

NewItems == [t \in ItemInputs, c \in {None, Some("household")}, n \in 1..(MaxItems + 1) |->
                NewItem(t, c, n)]

\* a plausible slip: the new list is shown but not saved
updateItems_notSaved(s, newItems) == [s EXCEPT !.items = newItems]

\* updateItems(newItems)
updateItems(s, newItems) ==
    [s EXCEPT !.items = newItems, !.localStorage = Some(stringify(newItems))]

\* The list as mounted: items comes from the local storage, which is empty or
\* holds the list an earlier session saved. rendered is the list of the last
\* render, the one the handlers see; generated counts the ids made, addCalls
\* the calls of addItem with an input that is not blank, removed holds the
\* ids deleted or cleared, and last tells the operation done last.
InitShopping ==
    /\ NoCall
    /\ taskForm = None
    /\ useTasks = None
    /\ dailyTracker = None
    /\ taskItem = None
    /\ \E storage \in {None,
                       Some(stringify(<<[id |-> "item_0", name |-> "soap", quantity |-> "",
                                         category |-> "household", checked |-> TRUE]>>))} :
           shoppingList = [items |-> loadShoppingList(storage),
                           rendered |-> loadShoppingList(storage),
                           newItem |-> "", selectedCategory |-> None,
                           localStorage |-> storage,
                           generated |-> 0, addCalls |-> 0,
                           added |-> {loadShoppingList(storage)[i].id :
                                          i \in 1..Len(loadShoppingList(storage))},
                           removed |-> {},
                           last |-> <<"mount">>]

ShoppingStep(s) ==
    /\ shoppingList' = s
    /\ UNCHANGED <<calls, taskForm, useTasks, dailyTracker, taskItem>>

\* A handler runs in a click or key event, and React renders the component
\* again before it handles the next event: the handlers of an event are
\* those of the render of the present state.
Rendered == shoppingList.rendered = shoppingList.items

RenderList ==
    /\ ~Rendered
    /\ ShoppingStep([shoppingList EXCEPT !.rendered = shoppingList.items])

SetNewItem ==
    /\ Rendered
    /\ \E t \in ItemInputs \ {shoppingList.newItem} :
           ShoppingStep([shoppingList EXCEPT !.newItem = t, !.last = <<"setNewItem">>])

SetSelectedCategory ==
    /\ Rendered
    /\ \E c \in {None, Some("household")} \ {shoppingList.selectedCategory} :
           ShoppingStep([shoppingList EXCEPT !.selectedCategory = c,
                                             !.last = <<"setSelectedCategory">>])

\* addItem(newItem) with an input that is not blank
AddItem ==
    /\ Rendered
    /\ trim(shoppingList.newItem) # ""
    /\ shoppingList.generated < MaxItems
    /\ LET n    == shoppingList.generated + 1
           item == NewItems[shoppingList.newItem, shoppingList.selectedCategory, n]
       IN ShoppingStep([updateItems(shoppingList, shoppingList.rendered \o <<item>>) EXCEPT
              !.newItem = "",
              !.generated = n,
              !.addCalls = @ + 1,
              !.added = @ \cup {item.id},
              !.last = <<"addItem", item.id>>])

ToggleItem ==
    /\ Rendered
    /\ \E i \in 1..Len(shoppingList.rendered) :
           LET id == shoppingList.rendered[i].id
           IN ShoppingStep([updateItems(shoppingList,
                                [j \in 1..Len(shoppingList.rendered) |->
                                    IF shoppingList.rendered[j].id = id
                                    THEN [shoppingList.rendered[j] EXCEPT !.checked = ~@]
                                    ELSE shoppingList.rendered[j]])
                            EXCEPT !.last = <<"toggleItem", id>>])

DeleteItem ==
    /\ Rendered
    /\ \E i \in 1..Len(shoppingList.rendered) :
           LET id == shoppingList.rendered[i].id
           IN ShoppingStep([updateItems(shoppingList,
                                SelectSeq(shoppingList.rendered, LAMBDA item : item.id # id))
                            EXCEPT !.removed = @ \cup {id},
                                   !.last = <<"deleteItem", id>>])

\* the button shows while an item is checked
ClearChecked ==
    /\ Rendered
    /\ \E i \in 1..Len(shoppingList.rendered) : shoppingList.rendered[i].checked
    /\ ShoppingStep([updateItems(shoppingList,
                         SelectSeq(shoppingList.rendered, LAMBDA item : ~item.checked))
                     EXCEPT !.removed = @ \cup {shoppingList.rendered[i].id :
                                                    i \in {j \in 1..Len(shoppingList.rendered) :
                                                               shoppingList.rendered[j].checked}},
                            !.last = <<"clearChecked">>])

\* the button shows while the list has an item
ClearAll ==
    /\ Rendered
    /\ shoppingList.rendered # <<>>
    /\ ShoppingStep([updateItems(shoppingList, <<>>)
                     EXCEPT !.removed = @ \cup {shoppingList.rendered[i].id :
                                                    i \in 1..Len(shoppingList.rendered)},
                            !.last = <<"clearAll">>])

NextShopping ==
    \/ RenderList
    \/ SetNewItem
    \/ SetSelectedCategory
    \/ AddItem
    \/ ToggleItem
    \/ DeleteItem
    \/ ClearChecked
    \/ ClearAll

SpecShopping == InitShopping /\ [][NextShopping]_vars

ItemIds(items) == {items[i].id : i \in 1..Len(items)}

\* C30: every addItem call with an input that is not blank appends exactly
\* one new unchecked item and keeps the items there are; toggleItem,
\* deleteItem and clearChecked change only the items they are aimed at; and
\* after any sequence of operations the list in the local storage is the
\* list shown, which holds every item added and not deleted or cleared.
C30_ListKept ==
    /\ [](/\ loadShoppingList(shoppingList.localStorage) = shoppingList.items
          /\ ItemIds(shoppingList.items) = shoppingList.added \ shoppingList.removed
          /\ Cardinality(ItemIds(shoppingList.items)) = Len(shoppingList.items))
    /\ [][LET before == shoppingList.items
              after  == shoppingList'.items
              op     == shoppingList'.last
          IN /\ shoppingList'.addCalls = shoppingList.addCalls + 1 =>
                    /\ Len(after) = Len(before) + 1
                    /\ SubSeq(after, 1, Len(before)) = before
                    /\ ~after[Len(after)].checked
                    /\ after[Len(after)].id \notin shoppingList.added
             /\ (Rendered /\ op[1] = "toggleItem") =>
                    /\ Len(after) = Len(before)
                    /\ \A j \in 1..Len(before) :
                           after[j] = IF before[j].id = op[2]
                                      THEN [before[j] EXCEPT !.checked = ~@]
                                      ELSE before[j]
             /\ (Rendered /\ op[1] = "deleteItem") =>
                    after = SelectSeq(before, LAMBDA item : item.id # op[2])
             /\ (Rendered /\ op[1] = "clearChecked") =>
                    after = SelectSeq(before, LAMBDA item : ~item.checked)]_vars

\* the stored "soap" is still there, "milk" was added and deleted, and
\* "2 lemons" was added after it: the storage holds the two items shown
C30_Witness ==
    /\ Len(shoppingList.items) = 2
    /\ shoppingList.items[1].name = "soap"
    /\ shoppingList.items[2] = [id |-> "item_2", name |-> "lemons", quantity |-> "2",
                                category |-> "other", checked |-> FALSE]
    /\ shoppingList.removed = {"item_1"}
    /\ shoppingList.addCalls = 2
    /\ shoppingList.localStorage = Some(stringify(shoppingList.items))

=============================================================================
